---- MODULE Spec2Model ----
(***************************************************************************)
(* Verification model of the NewCo Charts data pipeline (src/scripts).     *)
(*                                                                         *)
(*   Spec        the orchestrators: fetch_all.run and run_scheduled.run    *)
(*   SpecRetry   utils.retry_request                                       *)
(*   SpecResolve the identifier resolvers of build_search_index.py         *)
(*                                                                         *)
(* Python values are represented as follows.  A str whose characters the   *)
(* code inspects (series ids, NAICS codes) is the sequence of its          *)
(* characters; a str the code only passes around (display names) is a      *)
(* one-element sequence holding the whole text, and the empty str is <<>>. *)
(* None is the sequence NoneVal, which is no str.                          *)
(***************************************************************************)
EXTENDS Integers, Sequences, FiniteSets, TLC

VARIABLES
    \* ---- orchestrators (fetch_all.py, run_scheduled.py) ----
    entry,        \* the script started as __main__
    calendar,     \* content of config/release_calendar.json, or NoCalendar
    now_et,       \* datetime.now(ET) read by get_ready_fetchers
    pc,           \* position of the running script
    fetchers,     \* run_scheduled.run: the ready list
    skipped,      \* run_scheduled.run: the waiting list
    idx,          \* loop position in the step list being run (0-based)
    errors,       \* the errors list of the run() in progress
    calls,        \* history: every step function invoked, with its outcome
    success,      \* value returned by the entry point's run()
    exit_code,    \* argument of sys.exit
    \* ---- utils.retry_request ----
    rr_pc,        \* position inside retry_request
    attempt,      \* loop variable of range(max_retries)
    rr_log,       \* history: every requests.get (with outcome) and time.sleep
    rr_result,    \* what the call produced: returned response or raised error
    \* ---- build_search_index.py resolvers ----
    rs_call,      \* the resolver call made: family, series id, map used
    rs_result,    \* the tuple (or 1-tuple, for a single value) it returned
    \* ---- build_search_index.run ----
    disk,         \* the data documents on disk, one per DATA_FILE_PAGES item
    ix_maps,      \* the two config maps load_config returned
    ix_pc,        \* position inside run
    ix_file,      \* loop position in DATA_FILE_PAGES.items() (1-based)
    entries,      \* the entries list
    stats,        \* the stats dict
    ix_warnings,  \* history: the data files a WARNING line was printed for
    out_index,    \* content written to search/search_index.json
    out_names,    \* content written to search/naics_names.json
    ix_written,   \* the output files written so far
    \* ---- the fetchers' run: from the rows received to the documents written ----
    fb_fetcher,   \* the fetcher that ran
    fb_input,     \* what its source returned
    fb_docs,      \* history: every write_json(result, path), in order
    \* ---- post_process.run ----
    pp_tree,      \* the JSON tree on disk, path -> document
    pp_pc,        \* position of run: "calls", "returned" or "raised"
    pp_step,      \* the sub-step to call next (1-based position in PostSteps)
    pp_run,       \* which run this is: the first, or the one right after it
    pp_log,       \* history: every sub-step called, what it found and saved
    pp_first,     \* the JSON tree as the first run left it
    \* ---- the request loops (fetch_m3, fetch_qss, fetch_fred, fetch_nipa) ----
    fl_fetcher,   \* the fetcher whose run() is called
    fl_pc,        \* "loop", "done" (run is over), "recorded" (fetch_all went on)
    fl_result,    \* how run() ended: "returned" or "raised"
    fl_i,         \* iterations of the loop done
    fl_log,       \* history: every GET and every sleep, in order
    fl_got,       \* history: per iteration "rows", "empty" or "error"
    fl_rows,      \* all_rows / series_list is non-empty
    fl_before,    \* the output file before the run: "absent" or "previous"
    fl_file,      \* the output file now; "written" once this run wrote it
    fl_errors,    \* fetch_all.run: errors, after this step
    fl_success,   \* fetch_all.run: the value returned
    \* ---- fetch_calendar.run ----
    cal_file,     \* content of config/release_calendar.json
    cal_before,   \* its content before the run
    cal_pc,       \* the step of run to do next
    cal_dict,     \* calendar["schedules"] as built so far
    cal_pages     \* history: what each scraper's request came to

orchVars  == <<entry, calendar, now_et, pc, fetchers, skipped, idx, errors,
               calls, success, exit_code>>
retryVars == <<rr_pc, attempt, rr_log, rr_result>>
resVars   == <<rs_call, rs_result>>
indexVars == <<disk, ix_maps, ix_pc, ix_file, entries, stats, ix_warnings,
               out_index, out_names, ix_written>>
buildVars == <<fb_fetcher, fb_input, fb_docs>>
postVars  == <<pp_tree, pp_pc, pp_step, pp_run, pp_log, pp_first>>
loopVars  == <<fl_fetcher, fl_pc, fl_result, fl_i, fl_log, fl_got, fl_rows, fl_before, fl_file, fl_errors, fl_success>>
calVars   == <<cal_file, cal_before, cal_pc, cal_dict, cal_pages>>
vars      == <<orchVars, retryVars, resVars, indexVars, buildVars, postVars, loopVars, calVars>>

NoneVal == <<"<None>">>

(***************************************************************************)
(* fetch_all.py                                                            *)
(***************************************************************************)

\* fetch_all.run: the step list, in declared order.
steps ==
    << [name |-> "CES Employment Data (BLS flat files)",   func |-> "fetch_ces.run"],
       [name |-> "NIPA Tables (BEA API)",                  func |-> "fetch_nipa.run"],
       [name |-> "M3 Survey (Census API)",                 func |-> "fetch_m3.run"],
       [name |-> "Quarterly Services Survey (Census API)", func |-> "fetch_qss.run"],
       [name |-> "Construction Spending (Census Excel)",   func |-> "fetch_construction.run"],
       [name |-> "Monthly Wholesale Trade (Census API)",   func |-> "fetch_wholesale.run"],
       [name |-> "Industrial Production (FRED API)",       func |-> "fetch_fred.run"],
       [name |-> "Unemployment by Industry (BLS API)",     func |-> "fetch_unemployment.run"],
       [name |-> "Post-processing (derived data)",         func |-> "post_process.run"] >>

\* A step function either returns or raises an Exception; none of them calls
\* sys.exit, so the except Exception clauses see every failure.
StepOutcomes == {"returned", "raised"}

\* try: func() ... except Exception as e: errors.append((name, str(e)))
\* The message text plays no part in control flow; the name is recorded.
ErrorsAfter(errs, name, outcome) ==
    IF outcome = "raised" THEN Append(errs, name) ELSE errs

\* Mutant of RunResult: a single error is tolerated.
RunResult_OffByOne(errs) == Len(errs) <= 1

\* return len(errors) == 0
RunResult(errs) == Len(errs) = 0

\* sys.exit(0 if success else 1)
ExitCodeOf(ok) == IF ok THEN 0 ELSE 1

(***************************************************************************)
(* run_scheduled.py                                                        *)
(***************************************************************************)

FETCHER_MAP ==
    [ bls |->
        [release_time |-> <<8, 30>>,
         fetchers |-> << [name |-> "CES Employment Data",      func |-> "fetch_ces.run"],
                         [name |-> "Unemployment by Industry", func |-> "fetch_unemployment.run"] >>],
      bea |->
        [release_time |-> <<8, 30>>,
         fetchers |-> << [name |-> "NIPA Tables", func |-> "fetch_nipa.run"] >>],
      census_m3 |->
        [release_time |-> <<10, 0>>,
         fetchers |-> << [name |-> "M3 Survey", func |-> "fetch_m3.run"] >>],
      census_construction |->
        [release_time |-> <<10, 0>>,
         fetchers |-> << [name |-> "Construction Spending", func |-> "fetch_construction.run"] >>],
      census_wholesale |->
        [release_time |-> <<10, 0>>,
         fetchers |-> << [name |-> "Monthly Wholesale Trade", func |-> "fetch_wholesale.run"] >>],
      census_qss |->
        [release_time |-> <<10, 0>>,
         fetchers |-> << [name |-> "Quarterly Services Survey", func |-> "fetch_qss.run"] >>],
      fred_ip |->
        [release_time |-> <<9, 15>>,
         fetchers |-> << [name |-> "Industrial Production", func |-> "fetch_fred.run"] >>] ]

FETCH_DELAY_MINUTES == 5

\* Mutant of TimeGE: only the minutes are compared.
TimeGE_MinutesOnly(a, b) == a[2] >= b[2]

\* Python tuple comparison (h1, m1) >= (h2, m2): lexicographic.
TimeGE(a, b) == a[1] > b[1] \/ (a[1] = b[1] /\ a[2] >= b[2])

\* Mutant of FetchAfter: the release time itself, without the delay.
FetchAfter_NoDelay(release_time) == release_time

\* fetch_after = (rh, rm + FETCH_DELAY_MINUTES), minute overflow carried.
FetchAfter(release_time) ==
    LET rh == release_time[1]
        m  == release_time[2] + FETCH_DELAY_MINUTES
    IN  IF m >= 60 THEN <<rh + 1, m - 60>> ELSE <<rh, m>>

\* today in dates, for a list of date strings
InList(d, dates) == \E k \in 1..Len(dates) : dates[k] = d

\* get_ready_fetchers: one pass over schedules.items(), in file order,
\* extending the ready list or the waiting list.  Returns both lists.
RECURSIVE ReadyScan(_, _, _, _, _)
ReadyScan(schedules, k, now, ready, waiting) ==
    IF k > Len(schedules) THEN [fetchers |-> ready, skipped |-> waiting]
    ELSE
      LET cal_key == schedules[k].key
          dates   == schedules[k].dates
          today   == now.date
          current_time == <<now.hour, now.minute>>
      IN  IF InList(today, dates) /\ cal_key \in DOMAIN FETCHER_MAP
          THEN LET e == FETCHER_MAP[cal_key]
               IN  IF TimeGE(current_time, FetchAfter(e.release_time))
                   THEN ReadyScan(schedules, k + 1, now, ready \o e.fetchers, waiting)
                   ELSE ReadyScan(schedules, k + 1, now, ready,
                                  waiting \o [j \in 1..Len(e.fetchers) |->
                                                [name |-> e.fetchers[j].name,
                                                 release_time |-> e.release_time]])
          ELSE ReadyScan(schedules, k + 1, now, ready, waiting)

get_ready_fetchers(cal, now) == ReadyScan(cal, 1, now, <<>>, <<>>)


\* load_calendar: None when config/release_calendar.json does not exist,
\* else the parsed file.  A calendar file is written by fetch_calendar.run
\* only, so a parsed calendar is a non-empty dict ("not calendar" is False).
load_calendar(file) == file

(***************************************************************************)
(* utils.py: retry_request                                                 *)
(***************************************************************************)

\* Default arguments of retry_request; every caller in the repository
\* leaves them at their defaults.
max_retries == 3
delay == 2

\* What requests.get(...) followed by resp.raise_for_status() can do: return
\* a response, or raise.  raise_for_status raises requests.HTTPError for a
\* 4xx or 5xx status; the transport raises ConnectionError or Timeout.
GetOutcomes == {"ok", "http_4xx", "http_5xx", "connection_error", "timeout"}

\* except (requests.RequestException, requests.Timeout): HTTPError,
\* ConnectionError and Timeout are all subclasses of RequestException.
RequestExceptions == {"http_4xx", "http_5xx", "connection_error", "timeout"}

\* Mutant of Caught: an HTTP 4xx error is not caught by the except clause.
Caught_Not4xx(outcome) == outcome \in RequestExceptions \ {"http_4xx"}

Caught(outcome) == outcome \in RequestExceptions

\* if attempt < max_retries - 1: sleep and loop; else: raise
RetryAgain(a) == a < max_retries - 1

\* Mutant of Backoff: the same delay before every retry.
Backoff_Constant(a) == delay

\* time.sleep(delay * (attempt + 1))
Backoff(a) == delay * (a + 1)

GetEvent(outcome) == [op |-> "get",   outcome |-> outcome, secs |-> 0]
SleepEvent(secs)  == [op |-> "sleep", outcome |-> "-",     secs |-> secs]

RetryInit ==
    /\ rr_pc = "loop" /\ attempt = 0 /\ rr_log = <<>> /\ rr_result = "none"

\* lines 40-42: the GET succeeds and the response is returned
RrGetOk ==
    /\ rr_pc = "loop" /\ attempt < max_retries
    /\ rr_log' = Append(rr_log, GetEvent("ok"))
    /\ rr_result' = "returned"
    /\ rr_pc' = "done"
    /\ UNCHANGED attempt

\* lines 43-46: the GET raises, the error is caught, sleep, next attempt
RrGetFailsRetry ==
    /\ rr_pc = "loop" /\ attempt < max_retries
    /\ \E outcome \in GetOutcomes \ {"ok"} :
         /\ Caught(outcome)
         /\ RetryAgain(attempt)
         /\ rr_log' = rr_log \o <<GetEvent(outcome), SleepEvent(Backoff(attempt))>>
    /\ attempt' = attempt + 1
    /\ UNCHANGED <<rr_pc, rr_result>>

\* lines 43-48: the GET raises and the error leaves retry_request, either
\* re-raised by the else branch or not caught at all
RrGetFailsRaise ==
    /\ rr_pc = "loop" /\ attempt < max_retries
    /\ \E outcome \in GetOutcomes \ {"ok"} :
         /\ ~(Caught(outcome) /\ RetryAgain(attempt))
         /\ rr_log' = Append(rr_log, GetEvent(outcome))
         /\ rr_result' = outcome
    /\ rr_pc' = "done"
    /\ UNCHANGED attempt

RetryNext == RrGetOk \/ RrGetFailsRetry \/ RrGetFailsRaise

(***************************************************************************)
(* build_search_index.py: identifier resolvers                             *)
(***************************************************************************)

\* str.isdigit() and the class [A-Za-z], on the characters ids are made of.
Digits  == {"0", "1", "2", "3", "4", "5", "6", "7", "8", "9"}
Letters == {"A", "B", "C", "D", "E", "F", "G", "H", "I", "J", "K", "L", "M",
            "N", "O", "P", "Q", "R", "S", "T", "U", "V", "W", "X", "Y", "Z",
            "a", "b", "c", "d", "e", "f", "g", "h", "i", "j", "k", "l", "m",
            "n", "o", "p", "q", "r", "s", "t", "u", "v", "w", "x", "y", "z"}

\* s.find(c): 1-based position of the first c in s from position k on, 0 if none
RECURSIVE FindFrom(_, _, _)
FindFrom(s, c, k) ==
    IF k > Len(s) THEN 0
    ELSE IF s[k] = c THEN k
    ELSE FindFrom(s, c, k + 1)

\* c in s, for a one-character c
StrContains(s, c) == FindFrom(s, c, 1) # 0

\* s.split(sep, 1): at most one split, at the first separator
SplitOnce(s, sep) ==
    LET p == FindFrom(s, sep, 1)
    IN  IF p = 0 THEN <<s>>
        ELSE <<SubSeq(s, 1, p - 1), SubSeq(s, p + 1, Len(s))>>

\* s[a:b] for 0 <= a <= b: Python slice, clipped to the length of s
PySlice(s, a, b) ==
    LET hi == IF b < Len(s) THEN b ELSE Len(s)
    IN  IF a >= hi THEN <<>> ELSE SubSeq(s, a + 1, hi)

\* Mutant of str_isdigit: the empty string passes.
str_isdigit_EmptyOk(s) == \A k \in 1..Len(s) : s[k] \in Digits

\* s.isdigit(): non-empty and every character a digit
str_isdigit(s) == Len(s) > 0 /\ \A k \in 1..Len(s) : s[k] \in Digits

\* Mutant of StripTrailingLetters: '[A-Za-z]$', one letter only.
StripTrailingLetters_One(s) ==
    IF Len(s) > 0 /\ s[Len(s)] \in Letters THEN SubSeq(s, 1, Len(s) - 1) ELSE s

\* re.sub(r'[A-Za-z]+$', '', s): the maximal run of letters at the end of s
\* is removed.  (Ids hold no newline, before which $ would also match.)
RECURSIVE StripTrailingLetters(_)
StripTrailingLetters(s) ==
    IF Len(s) > 0 /\ s[Len(s)] \in Letters
    THEN StripTrailingLetters(SubSeq(s, 1, Len(s) - 1))
    ELSE s

composite == <<"c", "o", "m", "p", "o", "s", "i", "t", "e">>
dash      == <<"-">>
zeros6    == <<"0", "0", "0", "0", "0", "0">>

\* build_m3_map.py: the M3 code -> NAICS table, saved as m3_naics_map.json
m3_naics ==
    <<"1", "1", "A">> :> [naics |-> <<"3", "1", "1", "2">>, name |-> <<"Grain and Oilseed Milling">>] @@
    <<"1", "1", "B">> :> [naics |-> <<"3", "1", "1", "5">>, name |-> <<"Dairy Product Manufacturing">>] @@
    <<"1", "1", "C">> :> [naics |-> <<"3", "1", "1", "6", ",", "3", "1", "1", "7">>, name |-> <<"Animal Slaughtering/Processing, Seafood">>] @@
    <<"1", "1", "D">> :> [naics |-> <<"3", "1", "1", " ", "(", "o", "t", "h", "e", "r", ")">>, name |-> <<"Other Food Manufacturing">>] @@
    <<"1", "1", "S">> :> [naics |-> <<"3", "1", "1">>, name |-> <<"Food Products">>] @@
    <<"1", "2", "A">> :> [naics |-> <<"3", "1", "2", "1">>, name |-> <<"Beverage Manufacturing">>] @@
    <<"1", "2", "B">> :> [naics |-> <<"3", "1", "2", "2">>, name |-> <<"Tobacco Manufacturing">>] @@
    <<"1", "2", "S">> :> [naics |-> <<"3", "1", "2">>, name |-> <<"Beverage and Tobacco Products">>] @@
    <<"1", "3", "A">> :> [naics |-> <<"3", "1", "3">>, name |-> <<"Textile Mills">>] @@
    <<"1", "3", "S">> :> [naics |-> <<"3", "1", "3">>, name |-> <<"Textile Mills">>] @@
    <<"1", "4", "A">> :> [naics |-> <<"3", "1", "4">>, name |-> <<"Textile Product Mills">>] @@
    <<"1", "4", "S">> :> [naics |-> <<"3", "1", "4">>, name |-> <<"Textile Product Mills">>] @@
    <<"1", "5", "A">> :> [naics |-> <<"3", "1", "5">>, name |-> <<"Apparel Manufacturing">>] @@
    <<"1", "5", "S">> :> [naics |-> <<"3", "1", "5">>, name |-> <<"Apparel">>] @@
    <<"1", "6", "A">> :> [naics |-> <<"3", "1", "6">>, name |-> <<"Leather and Allied Products">>] @@
    <<"1", "6", "S">> :> [naics |-> <<"3", "1", "6">>, name |-> <<"Leather and Allied Products">>] @@
    <<"2", "1", "A">> :> [naics |-> <<"3", "2", "1", "9", "9", "1", ",", "3", "2", "1", "9", "9", "2">>, name |-> <<"Wood Building and Mobile Home Mfg">>] @@
    <<"2", "1", "B">> :> [naics |-> <<"3", "2", "1", " ", "(", "o", "t", "h", "e", "r", ")">>, name |-> <<"Other Wood Product Manufacturing">>] @@
    <<"2", "1", "S">> :> [naics |-> <<"3", "2", "1">>, name |-> <<"Wood Products">>] @@
    <<"2", "2", "A">> :> [naics |-> <<"3", "2", "2", "1">>, name |-> <<"Pulp, Paper, and Paperboard Mills">>] @@
    <<"2", "2", "B">> :> [naics |-> <<"3", "2", "2", "2", "1">>, name |-> <<"Paperboard Container Manufacturing">>] @@
    <<"2", "2", "C">> :> [naics |-> <<"3", "2", "2", "2", " ", "(", "o", "t", "h", "e", "r", ")">>, name |-> <<"Other Paper Manufacturing">>] @@
    <<"2", "2", "S">> :> [naics |-> <<"3", "2", "2">>, name |-> <<"Paper Products">>] @@
    <<"2", "3", "A">> :> [naics |-> <<"3", "2", "3">>, name |-> <<"Printing and Related Support Activities">>] @@
    <<"2", "3", "S">> :> [naics |-> <<"3", "2", "3">>, name |-> <<"Printing">>] @@
    <<"2", "4", "A">> :> [naics |-> <<"3", "2", "4", "1", "1", "0">>, name |-> <<"Petroleum Refineries">>] @@
    <<"2", "4", "B">> :> [naics |-> <<"3", "2", "4", "1", "2", "1", ",", "3", "2", "4", "1", "2", "2">>, name |-> <<"Asphalt Paving and Roofing Materials">>] @@
    <<"2", "4", "C">> :> [naics |-> <<"3", "2", "4", "1", "9", "1", ",", "3", "2", "4", "1", "9", "9">>, name |-> <<"Other Petroleum and Coal Products">>] @@
    <<"2", "4", "S">> :> [naics |-> <<"3", "2", "4">>, name |-> <<"Petroleum and Coal Products">>] @@
    <<"2", "5", "A">> :> [naics |-> <<"3", "2", "5", "3">>, name |-> <<"Pesticides, Fertilizers, Ag Chemicals">>] @@
    <<"2", "5", "B">> :> [naics |-> <<"3", "2", "5", "4">>, name |-> <<"Pharmaceutical and Medicine Mfg">>] @@
    <<"2", "5", "C">> :> [naics |-> <<"3", "2", "5", "5">>, name |-> <<"Paint, Coating, and Adhesive Mfg">>] @@
    <<"2", "5", "D">> :> [naics |-> <<"3", "2", "5", " ", "(", "o", "t", "h", "e", "r", ")">>, name |-> <<"Other Chemical Products">>] @@
    <<"2", "5", "S">> :> [naics |-> <<"3", "2", "5">>, name |-> <<"Chemical Products">>] @@
    <<"2", "6", "A">> :> [naics |-> <<"3", "2", "6", "2", "1">>, name |-> <<"Tire Manufacturing">>] @@
    <<"2", "6", "B">> :> [naics |-> <<"3", "2", "6", " ", "(", "o", "t", "h", "e", "r", ")">>, name |-> <<"Other Plastics and Rubber Products">>] @@
    <<"2", "6", "S">> :> [naics |-> <<"3", "2", "6">>, name |-> <<"Plastics and Rubber Products">>] @@
    <<"2", "7", "A">> :> [naics |-> <<"3", "2", "7">>, name |-> <<"Nonmetallic Mineral Products">>] @@
    <<"2", "7", "S">> :> [naics |-> <<"3", "2", "7">>, name |-> <<"Nonmetallic Mineral Products">>] @@
    <<"3", "1", "A">> :> [naics |-> <<"3", "3", "1", "1", ",", "3", "3", "1", "2">>, name |-> <<"Iron and Steel Mills and Steel Products">>] @@
    <<"3", "1", "B">> :> [naics |-> <<"3", "3", "1", "3", ",", "3", "3", "1", "4">>, name |-> <<"Alumina, Aluminum, and Nonferrous Metals">>] @@
    <<"3", "1", "C">> :> [naics |-> <<"3", "3", "1", "5", "1">>, name |-> <<"Ferrous Metal Foundries">>] @@
    <<"3", "1", "D">> :> [naics |-> <<"3", "3", "1", "5", "2">>, name |-> <<"Nonferrous Metal Foundries">>] @@
    <<"3", "1", "S">> :> [naics |-> <<"3", "3", "1">>, name |-> <<"Primary Metals">>] @@
    <<"3", "2", "A">> :> [naics |-> <<"3", "3", "2", "1">>, name |-> <<"Forging and Stamping">>] @@
    <<"3", "2", "B">> :> [naics |-> <<"3", "3", "2", "2", "1">>, name |-> <<"Cutlery and Handtool Mfg">>] @@
    <<"3", "2", "C">> :> [naics |-> <<"3", "3", "2", "4">>, name |-> <<"Boiler, Tank, and Shipping Container Mfg">>] @@
    <<"3", "2", "D">> :> [naics |-> <<"3", "3", "2", "9", "1">>, name |-> <<"Metal Valve Manufacturing">>] @@
    <<"3", "2", "E">> :> [naics |-> <<"3", "3", "2", "9", "9">>, name |-> <<"Small Arms and Ordnance, Nondefense">>] @@
    <<"3", "2", "F">> :> [naics |-> <<"3", "3", "2", "9", "9">>, name |-> <<"Small Arms and Ordnance, Defense">>] @@
    <<"3", "2", "G">> :> [naics |-> <<"3", "3", "2", " ", "(", "o", "t", "h", "e", "r", ")">>, name |-> <<"Other Fabricated Metal Products">>] @@
    <<"3", "2", "S">> :> [naics |-> <<"3", "3", "2">>, name |-> <<"Fabricated Metal Products">>] @@
    <<"3", "3", "A">> :> [naics |-> <<"3", "3", "3", "1", "1", "1">>, name |-> <<"Farm Machinery and Equipment">>] @@
    <<"3", "3", "B">> :> [naics |-> <<"3", "3", "3", "1", "1", "2">>, name |-> <<"Lawn/Garden Tractor and Equipment">>] @@
    <<"3", "3", "C">> :> [naics |-> <<"3", "3", "3", "1", "2", "0">>, name |-> <<"Construction Machinery">>] @@
    <<"3", "3", "D">> :> [naics |-> <<"3", "3", "3", "1", "3">>, name |-> <<"Mining, Oil and Gas Field Machinery">>] @@
    <<"3", "3", "E">> :> [naics |-> <<"3", "3", "3", "2", "4">>, name |-> <<"Industrial Machinery">>] @@
    <<"3", "3", "F">> :> [naics |-> <<"3", "3", "3", "3", "1", "8">>, name |-> <<"Commercial and Service Industry Machinery">>] @@
    <<"3", "3", "G">> :> [naics |-> <<"3", "3", "3", "3", "1", "4", ",", "3", "3", "3", "3", "1", "6">>, name |-> <<"Photographic Equipment">>] @@
    <<"3", "3", "H">> :> [naics |-> <<"3", "3", "3", "4", "1">>, name |-> <<"HVAC and Commercial Refrigeration Equipment">>] @@
    <<"3", "3", "I">> :> [naics |-> <<"3", "3", "3", "5", "1">>, name |-> <<"Metalworking Machinery">>] @@
    <<"3", "3", "J">> :> [naics |-> <<"3", "3", "3", "6", "1", "1">>, name |-> <<"Turbine and Turbine Generator Set Units">>] @@
    <<"3", "3", "K">> :> [naics |-> <<"3", "3", "3", "6", "1", "2", ",", "3", "3", "3", "6", "1", "3", ",", "3", "3", "3", "6", "1", "8">>, name |-> <<"Other Power Transmission Equipment">>] @@
    <<"3", "3", "L">> :> [naics |-> <<"3", "3", "3", "9", "1">>, name |-> <<"Pump and Compressor Mfg">>] @@
    <<"3", "3", "M">> :> [naics |-> <<"3", "3", "3", "9", "2">>, name |-> <<"Material Handling Equipment">>] @@
    <<"3", "3", "N">> :> [naics |-> <<"3", "3", "3", "9", "9">>, name |-> <<"All Other Machinery">>] @@
    <<"3", "3", "S">> :> [naics |-> <<"3", "3", "3">>, name |-> <<"Machinery">>] @@
    <<"3", "4", "A">> :> [naics |-> <<"3", "3", "4", "1", "1", "1">>, name |-> <<"Electronic Computer Mfg">>] @@
    <<"3", "4", "B">> :> [naics |-> <<"3", "3", "4", "1", "1", "2">>, name |-> <<"Computer Storage Device Mfg">>] @@
    <<"3", "4", "C">> :> [naics |-> <<"3", "3", "4", "1", "1", "8">>, name |-> <<"Other Computer Peripheral Equipment">>] @@
    <<"3", "4", "D">> :> [naics |-> <<"3", "3", "4", "2", "1", ",", "3", "3", "4", "2", "2", ",", "3", "3", "4", "2", "9">>, name |-> <<"Communications Equipment, Nondefense">>] @@
    <<"3", "4", "E">> :> [naics |-> <<"3", "3", "4", "2", "1", ",", "3", "3", "4", "2", "2", ",", "3", "3", "4", "2", "9">>, name |-> <<"Communications Equipment, Defense">>] @@
    <<"3", "4", "F">> :> [naics |-> <<"3", "3", "4", "3", "1", "0">>, name |-> <<"Audio and Video Equipment">>] @@
    <<"3", "4", "G">> :> [naics |-> <<"3", "3", "4", "4", "1", "3">>, name |-> <<"Semiconductor Mfg">>] @@
    <<"3", "4", "H">> :> [naics |-> <<"3", "3", "4", "4", "1", " ", "(", "o", "t", "h", "e", "r", ")">>, name |-> <<"Other Electronic Components">>] @@
    <<"3", "4", "I">> :> [naics |-> <<"3", "3", "4", "5", "1", "1">>, name |-> <<"Search/Navigation Equipment, Nondefense">>] @@
    <<"3", "4", "J">> :> [naics |-> <<"3", "3", "4", "5", "1", "1">>, name |-> <<"Search/Navigation Equipment, Defense">>] @@
    <<"3", "4", "K">> :> [naics |-> <<"3", "3", "4", "5", "1", " ", "(", "o", "t", "h", "e", "r", ")">>, name |-> <<"Measuring, Electromedical, Control Instruments">>] @@
    <<"3", "4", "L">> :> [naics |-> <<"3", "3", "4", "6", "1">>, name |-> <<"Magnetic and Optical Media Mfg">>] @@
    <<"3", "4", "S">> :> [naics |-> <<"3", "3", "4">>, name |-> <<"Computers and Electronic Products">>] @@
    <<"3", "4", "X">> :> [naics |-> <<"3", "3", "4">>, name |-> <<"Computers and Electronic Products Subtotal">>] @@
    <<"3", "5", "A">> :> [naics |-> <<"3", "3", "5", "1">>, name |-> <<"Electric Lighting Equipment">>] @@
    <<"3", "5", "B">> :> [naics |-> <<"3", "3", "5", "2">>, name |-> <<"Household Appliances">>] @@
    <<"3", "5", "C">> :> [naics |-> <<"3", "3", "5", "3">>, name |-> <<"Electrical Equipment">>] @@
    <<"3", "5", "D">> :> [naics |-> <<"3", "3", "5", "9", "1">>, name |-> <<"Batteries">>] @@
    <<"3", "5", "E">> :> [naics |-> <<"3", "3", "5", "9", " ", "(", "o", "t", "h", "e", "r", ")">>, name |-> <<"Other Electrical Equipment and Components">>] @@
    <<"3", "5", "S">> :> [naics |-> <<"3", "3", "5">>, name |-> <<"Electrical Equipment and Components">>] @@
    <<"3", "6", "A">> :> [naics |-> <<"3", "3", "6", "1", "1", "1">>, name |-> <<"Automobile Manufacturing">>] @@
    <<"3", "6", "B">> :> [naics |-> <<"3", "3", "6", "1", "1", "2">>, name |-> <<"Light Truck and Utility Vehicle Mfg">>] @@
    <<"3", "6", "C">> :> [naics |-> <<"3", "3", "6", "1", "2", "0">>, name |-> <<"Heavy Duty Truck Manufacturing">>] @@
    <<"3", "6", "D">> :> [naics |-> <<"3", "3", "6", "2", "1">>, name |-> <<"Motor Vehicle Body and Trailer Mfg">>] @@
    <<"3", "6", "E">> :> [naics |-> <<"3", "3", "6", "3">>, name |-> <<"Motor Vehicle Parts Mfg">>] @@
    <<"3", "6", "F">> :> [naics |-> <<"3", "3", "6", "4", "1", "1">>, name |-> <<"Aircraft Manufacturing, Nondefense">>] @@
    <<"3", "6", "G">> :> [naics |-> <<"3", "3", "6", "4", "1", "1">>, name |-> <<"Aircraft Manufacturing, Defense">>] @@
    <<"3", "6", "H">> :> [naics |-> <<"3", "3", "6", "4", "1", "2", ",", "3", "3", "6", "4", "1", "3">>, name |-> <<"Aircraft Engine and Parts, Nondefense">>] @@
    <<"3", "6", "I">> :> [naics |-> <<"3", "3", "6", "4", "1", "2", ",", "3", "3", "6", "4", "1", "3">>, name |-> <<"Aircraft Engine and Parts, Defense">>] @@
    <<"3", "6", "K">> :> [naics |-> <<"3", "3", "6", "5", "1", "0">>, name |-> <<"Railroad Rolling Stock">>] @@
    <<"3", "6", "L">> :> [naics |-> <<"3", "3", "6", "6", "1", "1", ",", "3", "3", "6", "6", "1", "2">>, name |-> <<"Ship and Boat Building, Nondefense">>] @@
    <<"3", "6", "M">> :> [naics |-> <<"3", "3", "6", "6", "1", "1", ",", "3", "3", "6", "6", "1", "2">>, name |-> <<"Ship and Boat Building, Defense">>] @@
    <<"3", "6", "P">> :> [naics |-> <<"3", "3", "6", "4", "1", "4", ",", "3", "3", "6", "4", "1", "5", ",", "3", "3", "6", "4", "1", "9">>, name |-> <<"Guided Missile/Space Vehicle, Nondefense">>] @@
    <<"3", "6", "Q">> :> [naics |-> <<"3", "3", "6", "4", "1", "4", ",", "3", "3", "6", "4", "1", "5", ",", "3", "3", "6", "4", "1", "9">>, name |-> <<"Guided Missile/Space Vehicle, Defense">>] @@
    <<"3", "6", "R">> :> [naics |-> <<"3", "3", "6", "9", "9", "2">>, name |-> <<"Military Armored Vehicle/Tank, Nondefense">>] @@
    <<"3", "6", "T">> :> [naics |-> <<"3", "3", "6", "9", "9", "2">>, name |-> <<"Military Armored Vehicle/Tank, Defense">>] @@
    <<"3", "6", "U">> :> [naics |-> <<"3", "3", "6", "9", "9", "1", ",", "3", "3", "6", "9", "9", "9">>, name |-> <<"Other Transportation Equipment">>] @@
    <<"3", "6", "S">> :> [naics |-> <<"3", "3", "6">>, name |-> <<"Transportation Equipment">>] @@
    <<"3", "6", "Z">> :> [naics |-> <<"3", "3", "6", "2", "1", ",", "3", "3", "6", "3">>, name |-> <<"Motor Vehicle Bodies, Parts, and Trailers">>] @@
    <<"3", "7", "A">> :> [naics |-> <<"3", "3", "7", "1">>, name |-> <<"Household Furniture and Kitchen Cabinet">>] @@
    <<"3", "7", "B">> :> [naics |-> <<"3", "3", "7", "1", "2", ",", "3", "3", "7", "2", "1">>, name |-> <<"Office and Institutional Furniture">>] @@
    <<"3", "7", "C">> :> [naics |-> <<"3", "3", "7", "9">>, name |-> <<"Other Furniture Related Products">>] @@
    <<"3", "7", "S">> :> [naics |-> <<"3", "3", "7">>, name |-> <<"Furniture and Related Products">>] @@
    <<"3", "9", "A">> :> [naics |-> <<"3", "3", "9", "1", "1">>, name |-> <<"Medical Equipment and Supplies">>] @@
    <<"3", "9", "B">> :> [naics |-> <<"3", "3", "9", "9", "2", ",", "3", "3", "9", "9", "3">>, name |-> <<"Sporting/Athletic Goods, Doll/Toy/Game">>] @@
    <<"3", "9", "C">> :> [naics |-> <<"3", "3", "9", "9", "4">>, name |-> <<"Office Supplies (except Paper)">>] @@
    <<"3", "9", "D">> :> [naics |-> <<"3", "3", "9", " ", "(", "o", "t", "h", "e", "r", ")">>, name |-> <<"Other Miscellaneous Manufacturing">>] @@
    <<"3", "9", "S">> :> [naics |-> <<"3", "3", "9">>, name |-> <<"Miscellaneous Manufacturing">>] @@
    <<"M", "T", "M">> :> [naics |-> <<"3", "1", "-", "3", "3">>, name |-> <<"Total Manufacturing">>] @@
    <<"M", "D", "M">> :> [naics |-> <<"3", "1", "-", "3", "3", " ", "(", "d", "u", "r", "a", "b", "l", "e", ")">>, name |-> <<"Durable Goods">>] @@
    <<"M", "N", "M">> :> [naics |-> <<"3", "1", "-", "3", "3", " ", "(", "n", "o", "n", "d", "u", "r", "a", "b", "l", "e", ")">>, name |-> <<"Nondurable Goods">>] @@
    <<"M", "X", "T">> :> [naics |-> <<"3", "1", "-", "3", "3", " ", "e", "x", " ", "3", "3", "6">>, name |-> <<"Manufacturing excl. Transportation">>] @@
    <<"M", "X", "D">> :> [naics |-> <<"3", "1", "-", "3", "3", " ", "e", "x", " ", "d", "e", "f", "e", "n", "s", "e">>, name |-> <<"Manufacturing excl. Defense">>] @@
    <<"D", "X", "T">> :> [naics |-> <<"d", "u", "r", "a", "b", "l", "e", " ", "e", "x", " ", "3", "3", "6">>, name |-> <<"Durable Goods excl. Transportation">>] @@
    <<"D", "X", "D">> :> [naics |-> <<"d", "u", "r", "a", "b", "l", "e", " ", "e", "x", " ", "d", "e", "f", "e", "n", "s", "e">>, name |-> <<"Durable Goods excl. Defense">>] @@
    <<"T", "C", "G">> :> [naics |-> <<"c", "o", "m", "p", "o", "s", "i", "t", "e">>, name |-> <<"Capital Goods">>] @@
    <<"N", "D", "E">> :> [naics |-> <<"c", "o", "m", "p", "o", "s", "i", "t", "e">>, name |-> <<"Nondefense Capital Goods">>] @@
    <<"N", "X", "A">> :> [naics |-> <<"c", "o", "m", "p", "o", "s", "i", "t", "e">>, name |-> <<"Nondefense Capital Goods excl. Aircraft">>] @@
    <<"D", "E", "F">> :> [naics |-> <<"c", "o", "m", "p", "o", "s", "i", "t", "e">>, name |-> <<"Defense Capital Goods">>] @@
    <<"C", "D", "G">> :> [naics |-> <<"c", "o", "m", "p", "o", "s", "i", "t", "e">>, name |-> <<"Consumer Durable Goods">>] @@
    <<"C", "N", "G">> :> [naics |-> <<"c", "o", "m", "p", "o", "s", "i", "t", "e">>, name |-> <<"Consumer Nondurable Goods">>] @@
    <<"C", "O", "G">> :> [naics |-> <<"c", "o", "m", "p", "o", "s", "i", "t", "e">>, name |-> <<"Consumer Goods">>] @@
    <<"M", "V", "P">> :> [naics |-> <<"3", "3", "6", "1", ",", "3", "3", "6", "2", ",", "3", "3", "6", "3">>, name |-> <<"Motor Vehicles and Parts">>] @@
    <<"B", "T", "P">> :> [naics |-> <<"3", "3", "6", "2", "1", ",", "3", "3", "6", "3">>, name |-> <<"Motor Vehicle Bodies, Trailers, Parts">>] @@
    <<"N", "A", "P">> :> [naics |-> <<"3", "3", "6", "4", "1", "1", ",", "3", "3", "6", "4", "1", "2", ",", "3", "3", "6", "4", "1", "3">>, name |-> <<"Nondefense Aircraft and Parts">>] @@
    <<"D", "A", "P">> :> [naics |-> <<"3", "3", "6", "4", "1", "1", ",", "3", "3", "6", "4", "1", "2", ",", "3", "3", "6", "4", "1", "3">>, name |-> <<"Defense Aircraft and Parts">>] @@
    <<"I", "T", "I">> :> [naics |-> <<"c", "o", "m", "p", "o", "s", "i", "t", "e">>, name |-> <<"Information Technology">>] @@
    <<"C", "R", "P">> :> [naics |-> <<"3", "3", "4", "1", "1">>, name |-> <<"Computers and Related Products">>] @@
    <<"C", "M", "S">> :> [naics |-> <<"c", "o", "m", "p", "o", "s", "i", "t", "e">>, name |-> <<"Construction Materials and Supplies">>] @@
    <<"O", "D", "G">> :> [naics |-> <<"3", "2", "1", ",", "3", "2", "7", ",", "3", "3", "7", ",", "3", "3", "9">>, name |-> <<"Other Durable Goods">>] @@
    <<"T", "G", "P">> :> [naics |-> <<"3", "3", "3", "6", "1">>, name |-> <<"Turbines/Generators/Power Transmission">>] @@
    <<"M", "T", "U">> :> [naics |-> <<"c", "o", "m", "p", "o", "s", "i", "t", "e">>, name |-> <<"Manufacturing with Unfilled Orders">>] @@
    <<"A", "N", "M">> :> [naics |-> <<"3", "3", "1", "3", ",", "3", "3", "1", "4", ",", "3", "3", "1", "5", "2">>, name |-> <<"Aluminum and Nonferrous Metal Products">>]

\* Mutant of M3Unresolvable: a "-" inside the value is not tested.
M3Unresolvable_NoDashInside(naics) ==
    naics \in {composite, dash} \/ StrContains(naics, "(")

\* naics in ("composite", "-") or "(" in naics or "-" in naics
M3Unresolvable(naics) ==
    naics \in {composite, dash} \/ StrContains(naics, "(") \/ StrContains(naics, "-")

\* resolve_naics_m3(series_id, m3_map); a map is a function on codes
resolve_naics_m3(series_id, m3_map) ==
    LET parts == SplitOnce(series_id, "_")
        code  == parts[1]
    IN  IF code \notin DOMAIN m3_map THEN <<NoneVal, NoneVal>>
        ELSE LET e == m3_map[code]
             IN  IF M3Unresolvable(e.naics) THEN <<NoneVal, e.name>>
                 ELSE <<SplitOnce(e.naics, ",")[1], e.name>>

\* Mutant of CesEstCode: the slice starts one character early.
CesEstCode_OffByOne(series_id) == PySlice(series_id, 2, 10)

\* est_code = series_id[3:11]
CesEstCode(series_id) == PySlice(series_id, 3, 11)

\* resolve_naics_ces(series_id, ces_map)
resolve_naics_ces(series_id, ces_map) ==
    IF Len(series_id) < 11 THEN <<NoneVal, NoneVal>>
    ELSE LET est_code == CesEstCode(series_id)
         IN  IF est_code \notin DOMAIN ces_map THEN <<NoneVal, NoneVal>>
             ELSE IF ces_map[est_code].naics = dash THEN <<NoneVal, NoneVal>>
             ELSE <<ces_map[est_code].naics, ces_map[est_code].name>>

\* resolve_naics_wholesale(series_id)
resolve_naics_wholesale(series_id) ==
    LET code == SplitOnce(series_id, "_")[1]
    IN  IF str_isdigit(code) THEN code ELSE NoneVal

\* resolve_naics_qss(series_id)
resolve_naics_qss(series_id) ==
    LET cat   == SplitOnce(series_id, "_")[1]
        naics == StripTrailingLetters(cat)
    IN  IF naics # <<>> /\ naics # zeros6 THEN naics ELSE NoneVal

(***************************************************************************)
(* build_search_index.py: the index builder                                *)
(*                                                                         *)
(* A Python dict is a sequence of <<key, value>> pairs in insertion order. *)
(* An entry's optional keys naics and naicsName hold NoneVal when the key  *)
(* is absent (what entry.get returns).                                     *)
(***************************************************************************)

\* Standard NAICS sector names (2-digit)
NAICS_SECTORS ==
    << <<<<"1", "1">>, <<"Agriculture, Forestry, Fishing and Hunting">>>>,
       <<<<"2", "1">>, <<"Mining, Quarrying, and Oil and Gas Extraction">>>>,
       <<<<"2", "2">>, <<"Utilities">>>>,
       <<<<"2", "3">>, <<"Construction">>>>,
       <<<<"3", "1">>, <<"Manufacturing">>>>,
       <<<<"3", "2">>, <<"Manufacturing">>>>,
       <<<<"3", "3">>, <<"Manufacturing">>>>,
       <<<<"4", "2">>, <<"Wholesale Trade">>>>,
       <<<<"4", "4">>, <<"Retail Trade">>>>,
       <<<<"4", "5">>, <<"Retail Trade">>>>,
       <<<<"4", "8">>, <<"Transportation and Warehousing">>>>,
       <<<<"4", "9">>, <<"Transportation and Warehousing">>>>,
       <<<<"5", "1">>, <<"Information">>>>,
       <<<<"5", "2">>, <<"Finance and Insurance">>>>,
       <<<<"5", "3">>, <<"Real Estate and Rental and Leasing">>>>,
       <<<<"5", "4">>, <<"Professional, Scientific, and Technical Services">>>>,
       <<<<"5", "5">>, <<"Management of Companies and Enterprises">>>>,
       <<<<"5", "6">>, <<"Administrative and Support and Waste Management">>>>,
       <<<<"6", "1">>, <<"Educational Services">>>>,
       <<<<"6", "2">>, <<"Health Care and Social Assistance">>>>,
       <<<<"7", "1">>, <<"Arts, Entertainment, and Recreation">>>>,
       <<<<"7", "2">>, <<"Accommodation and Food Services">>>>,
       <<<<"8", "1">>, <<"Other Services (except Public Administration)">>>>,
       <<<<"9", "2">>, <<"Public Administration">>>> >>

\* Data file -> list of pages that show this data, in declaration order
DATA_FILE_PAGES ==
    << [file |-> "ces/employees.json",
        pages |-> <<
            [page |-> "ces/employees_yoy.html", pageLabel |-> "Employees YoY",
             section |-> "CES", sectionLabel |-> "Current Employment Statistics"],
            [page |-> "ces/employees_long.html", pageLabel |-> "Employees (Long)",
             section |-> "CES", sectionLabel |-> "Current Employment Statistics"] >>],
       [file |-> "ces/employees_pbs.json",
        pages |-> <<
            [page |-> "ces/employees_pbs.html", pageLabel |-> "Prof. & Business Services",
             section |-> "CES", sectionLabel |-> "Current Employment Statistics"] >>],
       [file |-> "ces/payrolls.json",
        pages |-> <<
            [page |-> "ces/payrolls.html", pageLabel |-> "Aggregate Payrolls",
             section |-> "CES", sectionLabel |-> "Current Employment Statistics"] >>],
       [file |-> "m3/m3.json",
        pages |-> <<
            [page |-> "m3/index.html", pageLabel |-> "M3 Survey",
             section |-> "M3", sectionLabel |-> "M3 - Shipments, Inventories & Orders"] >>],
       [file |-> "qss/qss.json",
        pages |-> <<
            [page |-> "qss/index.html", pageLabel |-> "Quarterly Services Survey",
             section |-> "QSS", sectionLabel |-> "Quarterly Services Survey"] >>],
       [file |-> "wholesale/wholesale_sales.json",
        pages |-> <<
            [page |-> "wholesale/sales.html", pageLabel |-> "Wholesale Sales",
             section |-> "Wholesale", sectionLabel |-> "Monthly Wholesale Trade"] >>],
       [file |-> "wholesale/wholesale_inventory.json",
        pages |-> <<
            [page |-> "wholesale/inventory.html", pageLabel |-> "Wholesale Inventories",
             section |-> "Wholesale", sectionLabel |-> "Monthly Wholesale Trade"] >>],
       [file |-> "wholesale/wholesale_ratio.json",
        pages |-> <<
            [page |-> "wholesale/ratio.html", pageLabel |-> "Wholesale I/S Ratio",
             section |-> "Wholesale", sectionLabel |-> "Monthly Wholesale Trade"] >>],
       [file |-> "construction/construction.json",
        pages |-> <<
            [page |-> "construction/index.html", pageLabel |-> "Construction Spending",
             section |-> "Construction", sectionLabel |-> "Construction Spending"] >>],
       [file |-> "industrial_production/industrial_production.json",
        pages |-> <<
            [page |-> "industrial_production/index.html", pageLabel |-> "Industrial Production",
             section |-> "IP", sectionLabel |-> "Industrial Production"] >>],
       [file |-> "unemployment/unemployment.json",
        pages |-> <<
            [page |-> "unemployment/index.html", pageLabel |-> "Unemployment by Industry",
             section |-> "Unemployment", sectionLabel |-> "Unemployment by Industry"] >>],
       [file |-> "nipa/1bu.json",
        pages |-> <<
            [page |-> "nipa/1bu.html", pageLabel |-> "1BU - Mfg & Trade Inventories",
             section |-> "NIPA", sectionLabel |-> "NIPA Data"] >>],
       [file |-> "nipa/2bu.json",
        pages |-> <<
            [page |-> "nipa/2bu.html", pageLabel |-> "2BU - Mfg & Trade Sales",
             section |-> "NIPA", sectionLabel |-> "NIPA Data"] >>],
       [file |-> "nipa/2_4_4u.json",
        pages |-> <<
            [page |-> "nipa/2_4_4u.html", pageLabel |-> "2.4.4U - PCE Deflator",
             section |-> "NIPA", sectionLabel |-> "NIPA Data"] >>],
       [file |-> "nipa/2_4_5u.json",
        pages |-> <<
            [page |-> "nipa/2_4_5u.html", pageLabel |-> "2.4.5U - Nominal Spending",
             section |-> "NIPA", sectionLabel |-> "NIPA Data"] >>],
       [file |-> "nipa/2_4_6u.json",
        pages |-> <<
            [page |-> "nipa/2_4_6u.html", pageLabel |-> "2.4.6U - Real Spending",
             section |-> "NIPA", sectionLabel |-> "NIPA Data"] >>],
       [file |-> "nipa/3bu.json",
        pages |-> <<
            [page |-> "nipa/3bu.html", pageLabel |-> "3BU - Inventory-Sales Ratio",
             section |-> "NIPA", sectionLabel |-> "NIPA Data"] >>],
       [file |-> "nipa/3_3.json",
        pages |-> <<
            [page |-> "nipa/3_3.html", pageLabel |-> "3.3 - State & Local Govt",
             section |-> "NIPA", sectionLabel |-> "NIPA Data"] >>],
       [file |-> "nipa/4_2_5b.json",
        pages |-> <<
            [page |-> "nipa/4_2_5b.html", pageLabel |-> "4.2.5B - Net Exports",
             section |-> "NIPA", sectionLabel |-> "NIPA Data"] >>],
       [file |-> "nipa/4_2_6b.json",
        pages |-> <<
            [page |-> "nipa/4_2_6b.html", pageLabel |-> "4.2.6B - Real Imports",
             section |-> "NIPA", sectionLabel |-> "NIPA Data"] >>],
       [file |-> "nipa/5_3_5.json",
        pages |-> <<
            [page |-> "nipa/5_3_5.html", pageLabel |-> "5.3.5 - Nonresidential Investment",
             section |-> "NIPA", sectionLabel |-> "NIPA Data"] >>],
       [file |-> "nipa/5_5_5u.json",
        pages |-> <<
            [page |-> "nipa/5_5_5u.html", pageLabel |-> "5.5.5U - Equipment Spending",
             section |-> "NIPA", sectionLabel |-> "NIPA Data"] >>],
       [file |-> "nipa/5_7_5bu1.json",
        pages |-> <<
            [page |-> "nipa/5_7_5bu1.html", pageLabel |-> "5.7.5BU1 - Private Inventories",
             section |-> "NIPA", sectionLabel |-> "NIPA Data"] >>],
       [file |-> "fed_surveys/fed_mfg.json",
        pages |-> <<
            [page |-> "fed_surveys/manufacturing.html", pageLabel |-> "Manufacturing Surveys",
             section |-> "FedSurveys", sectionLabel |-> "Fed Regional Surveys"] >>],
       [file |-> "fed_surveys/fed_svc.json",
        pages |-> <<
            [page |-> "fed_surveys/services.html", pageLabel |-> "Services Surveys",
             section |-> "FedSurveys", sectionLabel |-> "Fed Regional Surveys"] >>] >>

\* key in d
DictHas(d, key) == \E k \in 1..Len(d) : d[k][1] = key

\* d[key], for a key that is in d
DictGet(d, key) == d[CHOOSE k \in 1..Len(d) : d[k][1] = key][2]

\* Mutant of M3Excluded: the pattern is anchored at the end, r'_(MPC|IS)$'.
M3Excluded_Suffix(sid) ==
    LET n == Len(sid)
    IN  \/ n >= 4 /\ SubSeq(sid, n - 3, n) = <<"_", "M", "P", "C">>
        \/ n >= 3 /\ SubSeq(sid, n - 2, n) = <<"_", "I", "S">>

\* M3_EXCLUDE.search(sid) with M3_EXCLUDE = re.compile(r'_(MPC|IS)'):
\* the pattern is not anchored, it matches anywhere in the id
M3Excluded(sid) ==
    \E k \in 1..Len(sid) :
        \/ k + 3 <= Len(sid) /\ SubSeq(sid, k, k + 3) = <<"_", "M", "P", "C">>
        \/ k + 2 <= Len(sid) /\ SubSeq(sid, k, k + 2) = <<"_", "I", "S">>

\* run, lines 262-273: the resolver of the file's section
Resolve(section, sid, ces_map, m3_map) ==
    IF section = "CES" THEN resolve_naics_ces(sid, ces_map)
    ELSE IF section = "M3" THEN resolve_naics_m3(sid, m3_map)
    ELSE IF section = "Wholesale" THEN <<resolve_naics_wholesale(sid), NoneVal>>
    ELSE IF section = "QSS" THEN <<resolve_naics_qss(sid), NoneVal>>
    ELSE <<NoneVal, NoneVal>>

\* Python truthiness of a str-or-None value: neither None nor ""
Truthy(v) == v # NoneVal /\ v # <<>>

\* name = series.get("name", sid)
SeriesName(series) == IF series.name = NoneVal THEN series.id ELSE series.name

\* run, lines 275-283: the naics_name an entry would carry
NaicsName(naics, resolved_name, name) ==
    LET naics_name == IF ~Truthy(resolved_name) THEN name ELSE resolved_name
        sector     == PySlice(naics, 0, 2)
    IN  IF Truthy(naics) /\ naics_name = name /\ DictHas(NAICS_SECTORS, sector)
        THEN DictGet(NAICS_SECTORS, sector)
        ELSE naics_name

\* Mutant of MakeEntry: naicsName is stored whether or not a code was found.
MakeEntry_AlwaysName(data_file, page_info, series, naics, naics_name) ==
    [id |-> series.id, name |-> SeriesName(series),
     section |-> page_info.section, sectionLabel |-> page_info.sectionLabel,
     page |-> page_info.page, pageLabel |-> page_info.pageLabel,
     dataFile |-> data_file,
     naics     |-> IF Truthy(naics) THEN naics ELSE NoneVal,
     naicsName |-> naics_name]

\* run, lines 290-301: the entry of one series on one page
MakeEntry(data_file, page_info, series, naics, naics_name) ==
    [id |-> series.id, name |-> SeriesName(series),
     section |-> page_info.section, sectionLabel |-> page_info.sectionLabel,
     page |-> page_info.page, pageLabel |-> page_info.pageLabel,
     dataFile |-> data_file,
     naics     |-> IF Truthy(naics) THEN naics ELSE NoneVal,
     naicsName |-> IF Truthy(naics) THEN naics_name ELSE NoneVal]

\* Mutant of SeriesEntries: only the first page gets an entry.
SeriesEntries_FirstPageOnly(data_file, pages, series, ces_map, m3_map) ==
    LET r == Resolve(pages[1].section, series.id, ces_map, m3_map)
    IN  << MakeEntry(data_file, pages[1], series, r[1],
                     NaicsName(r[1], r[2], SeriesName(series))) >>

\* run, lines 262-302: the entries of one series that is not excluded,
\* one per page of its data file
SeriesEntries(data_file, pages, series, ces_map, m3_map) ==
    LET r          == Resolve(pages[1].section, series.id, ces_map, m3_map)
        naics      == r[1]
        naics_name == NaicsName(naics, r[2], SeriesName(series))
    IN  [p \in 1..Len(pages) |->
            MakeEntry(data_file, pages[p], series, naics, naics_name)]

\* Mutant of Skipped: a series with fewer than 2 observations is skipped too.
Skipped_FewPoints(section, series) ==
    \/ section = "M3" /\ M3Excluded(series.id)
    \/ Len(series.data) < 2

\* run, lines 258-260: is the series skipped
Skipped(section, series) == section = "M3" /\ M3Excluded(series.id)

\* run, lines 254-304: the loop over the series of one loaded document, from
\* series k on; acc is [entries, series, naics_mapped]
RECURSIVE ScanSeries(_, _, _, _, _, _, _)
ScanSeries(data_file, pages, doc_series, k, ces_map, m3_map, acc) ==
    IF k > Len(doc_series) THEN acc
    ELSE LET s == doc_series[k]
         IN  IF Skipped(pages[1].section, s)
             THEN ScanSeries(data_file, pages, doc_series, k + 1, ces_map, m3_map, acc)
             ELSE LET naics == Resolve(pages[1].section, s.id, ces_map, m3_map)[1]
                  IN  ScanSeries(data_file, pages, doc_series, k + 1, ces_map, m3_map,
                        [entries |-> acc.entries \o
                                     SeriesEntries(data_file, pages, s, ces_map, m3_map),
                         series  |-> acc.series + 1,
                         naics_mapped |-> acc.naics_mapped
                                          + (IF Truthy(naics) THEN 1 ELSE 0)])

\* Mutant of NamesAdd: a later entry overwrites an earlier name.
NamesAdd_LastWins(names, e) ==
    IF Truthy(e.naics) /\ Truthy(e.naicsName)
    THEN IF DictHas(names, e.naics)
         THEN [j \in 1..Len(names) |->
                 IF names[j][1] = e.naics THEN <<e.naics, e.naicsName>>
                 ELSE names[j]]
         ELSE Append(names, <<e.naics, e.naicsName>>)
    ELSE names

\* build_naics_names, lines 229-232: the body of the loop, for one entry
NamesAdd(names, e) ==
    IF Truthy(e.naics) /\ Truthy(e.naicsName) /\ ~DictHas(names, e.naics)
    THEN Append(names, <<e.naics, e.naicsName>>)
    ELSE names

\* build_naics_names, line 228: the loop over all_entries[lo..hi], in order.
\* The range is folded half by half and the lookup after the left half is
\* computed before the right half starts (the test on its length does that:
\* the loop only ever adds keys), so that the depth of the evaluation grows
\* with the logarithm of the number of entries.
RECURSIVE NamesScan(_, _, _, _)
NamesScan(all_entries, lo, hi, names) ==
    IF lo > hi THEN names
    ELSE IF lo = hi THEN NamesAdd(names, all_entries[lo])
    ELSE LET mid == (lo + hi) \div 2
             left == NamesScan(all_entries, lo, mid, names)
         IN  IF Len(left) >= Len(names)
             THEN NamesScan(all_entries, mid + 1, hi, left)
             ELSE left

\* Mutant of build_naics_names: the lookup starts empty, names = {}.
build_naics_names_NoSectorTable(all_entries) ==
    NamesScan(all_entries, 1, Len(all_entries), <<>>)

\* build_naics_names(all_entries): names = dict(NAICS_SECTORS), then the loop
build_naics_names(all_entries) ==
    NamesScan(all_entries, 1, Len(all_entries), NAICS_SECTORS)

(***************************************************************************)
(* The fetchers: from the rows a source returned to the document written   *)
(*                                                                         *)
(* A date string "YYYY-MM-01" is the number YYYYMM: the fetchers compare    *)
(* the strings, and for this fixed-width format that is the order of the   *)
(* numbers.  A float is the string of its digits, None is Null.  A written *)
(* series is [id, display_order, data]; its name and the document's        *)
(* metadata are left out.                                                  *)
(***************************************************************************)

Null == "null"

\* Characters in ASCII order, for the comparison of str keys
Ascii == << "-", "0", "1", "2", "3", "4", "5", "6", "7", "8", "9",
            "A", "B", "C", "D", "E", "F", "G", "H", "I", "J", "K", "L", "M",
            "N", "O", "P", "Q", "R", "S", "T", "U", "V", "W", "X", "Y", "Z",
            "_" >>

Ord(c) == CHOOSE k \in 1..Len(Ascii) : Ascii[k] = c

\* a < b for two Python strs
RECURSIVE StrLess(_, _)
StrLess(a, b) ==
    IF b = <<>> THEN FALSE
    ELSE IF a = <<>> THEN TRUE
    ELSE IF Head(a) = Head(b) THEN StrLess(Tail(a), Tail(b))
    ELSE Ord(Head(a)) < Ord(Head(b))

\* One step of a stable sort by date: p goes after every point that is not
\* later than it.
InsertByDate(sorted, p) ==
    LET k == Cardinality({ i \in 1..Len(sorted) : sorted[i].date <= p.date })
    IN  SubSeq(sorted, 1, k) \o <<p>> \o SubSeq(sorted, k + 1, Len(sorted))

\* data.sort(key=lambda d: d["date"]) and sorted(data, key=...): stable
RECURSIVE SortByDate(_)
SortByDate(points) ==
    IF points = <<>> THEN <<>>
    ELSE InsertByDate(SortByDate(SubSeq(points, 1, Len(points) - 1)),
                      points[Len(points)])

\* series_map[key]["data"].append(point), after series_map[key] = {...} for a
\* new key; the dict is a sequence of <<key, data>> pairs
AppendPoint(series_map, key, point) ==
    IF DictHas(series_map, key)
    THEN [j \in 1..Len(series_map) |->
            IF series_map[j][1] = key
            THEN <<key, Append(series_map[j][2], point)>>
            ELSE series_map[j]]
    ELSE Append(series_map, <<key, <<point>>>>)

\* One step of sorted(series_map.items()): keys are unique
InsertByKey(sorted, item) ==
    LET k == Cardinality({ i \in 1..Len(sorted) : StrLess(sorted[i][1], item[1]) })
    IN  SubSeq(sorted, 1, k) \o <<item>> \o SubSeq(sorted, k + 1, Len(sorted))

\* sorted(series_map.items())
RECURSIVE SortedItems(_)
SortedItems(series_map) ==
    IF series_map = <<>> THEN <<>>
    ELSE InsertByKey(SortedItems(SubSeq(series_map, 1, Len(series_map) - 1)),
                     series_map[Len(series_map)])

\* float(str(value_str).replace(",", "").strip()) if value_str else None,
\* with ValueError caught: the cells a Census response holds
CensusValue(cell) ==
    IF cell = "" THEN Null
    ELSE IF cell = "125.0" THEN "125.0"
    ELSE IF cell = "1,250.0" THEN "1250.0"
    ELSE Null

\* ---- fetch_m3.py ----

\* fetch_m3.run, lines 209-230: is the row used.  time is 0 when time_str
\* fails the test of line 226.
M3RowUsed(row) ==
    /\ row.sa = "yes"
    /\ ~(Len(row.dtype) >= 2 /\ SubSeq(row.dtype, 1, 2) = <<"E", "_">>)
    /\ row.time # 0

\* fetch_m3.run, lines 208-244: the loop over all_rows, from row k on
RECURSIVE M3Group(_, _, _)
M3Group(all_rows, k, series_map) ==
    IF k > Len(all_rows) THEN series_map
    ELSE LET row == all_rows[k]
         IN  IF ~M3RowUsed(row) THEN M3Group(all_rows, k + 1, series_map)
             ELSE M3Group(all_rows, k + 1,
                    AppendPoint(series_map, row.cat \o <<"_">> \o row.dtype,
                                [date |-> row.time, value |-> CensusValue(row.cell)]))

\* Mutant of M3TooFew: a series of one point is kept.
M3TooFew_OnlyEmpty(data) == Len(data) < 1

\* fetch_m3.run, line 250: if len(info["data"]) < 2: continue
M3TooFew(data) == Len(data) < 2

\* fetch_m3.run, line 249: info["data"].sort(key=lambda d: d["date"])
M3Data(data) == SortByDate(data)

\* fetch_m3.run, lines 247-257: the loop over enumerate(sorted(...)), from
\* index i on
RECURSIVE M3Build(_, _, _)
M3Build(items, i, series_list) ==
    IF i >= Len(items) THEN series_list
    ELSE LET data == M3Data(items[i + 1][2])
         IN  IF M3TooFew(data) THEN M3Build(items, i + 1, series_list)
             ELSE M3Build(items, i + 1,
                    Append(series_list, [id |-> items[i + 1][1],
                                         display_order |-> i, data |-> data]))

\* fetch_m3.run, lines 199-270: the documents written for the rows fetched
M3Run(all_rows) ==
    IF all_rows = <<>> THEN <<>>
    ELSE << [file |-> "m3/m3.json",
             series |-> M3Build(SortedItems(M3Group(all_rows, 1, <<>>)), 0, <<>>)] >>

\* ---- fetch_qss.py ----

\* fetch_qss.run, lines 79-89: the date of a time "YYYY-QN", given as year
\* and quarter; the year is 0 when the string does not parse (date_str None)
QssDate(time) == IF time.year = 0 THEN 0 ELSE time.year * 100 + (time.quarter - 1) * 3 + 1

\* fetch_qss.run, lines 64-92: is the row used
QssRowUsed(row) ==
    /\ row.sa = "yes"
    /\ ~(Len(row.dtype) >= 2 /\ SubSeq(row.dtype, 1, 2) = <<"E", "_">>)
    /\ QssDate(row.time) # 0

\* fetch_qss.run, lines 63-101: the loop over all_rows, from row k on
RECURSIVE QssGroup(_, _, _)
QssGroup(all_rows, k, series_map) ==
    IF k > Len(all_rows) THEN series_map
    ELSE LET row == all_rows[k]
         IN  IF ~QssRowUsed(row) THEN QssGroup(all_rows, k + 1, series_map)
             ELSE QssGroup(all_rows, k + 1,
                    AppendPoint(series_map, row.cat \o <<"_">> \o row.dtype,
                                [date |-> QssDate(row.time),
                                 value |-> CensusValue(row.cell)]))

\* fetch_qss.run, lines 103-111: the loop over enumerate(sorted(...))
RECURSIVE QssBuild(_, _, _)
QssBuild(items, i, series_list) ==
    IF i >= Len(items) THEN series_list
    ELSE LET data == SortByDate(items[i + 1][2])
         IN  IF Len(data) < 2 THEN QssBuild(items, i + 1, series_list)
             ELSE QssBuild(items, i + 1,
                    Append(series_list, [id |-> items[i + 1][1],
                                         display_order |-> i, data |-> data]))

\* fetch_qss.run, lines 55-124: the documents written for the rows fetched
QssRun(all_rows) ==
    IF all_rows = <<>> THEN <<>>
    ELSE << [file |-> "qss/qss.json",
             series |-> QssBuild(SortedItems(QssGroup(all_rows, 1, <<>>)), 0, <<>>)] >>

\* ---- fetch_ces.py ----

\* ce.series as load_metadata returns it: two employment series, a payroll
\* series and a series that is not seasonally adjusted
series_df ==
    << [series_id |-> <<"C", "E", "S", "1", "0", "0", "0", "0", "0", "0", "0", "0", "1">>,
        industry_code |-> <<"1", "0", "0", "0", "0", "0", "0", "0">>,
        data_type_code |-> "01", seasonal |-> "S"],
       [series_id |-> <<"C", "E", "S", "0", "5", "0", "0", "0", "0", "0", "0", "0", "1">>,
        industry_code |-> <<"0", "5", "0", "0", "0", "0", "0", "0">>,
        data_type_code |-> "01", seasonal |-> "S"],
       [series_id |-> <<"C", "E", "S", "0", "5", "0", "0", "0", "0", "0", "0", "1", "1">>,
        industry_code |-> <<"0", "5", "0", "0", "0", "0", "0", "0">>,
        data_type_code |-> "11", seasonal |-> "S"],
       [series_id |-> <<"C", "E", "U", "0", "5", "0", "0", "0", "0", "0", "0", "0", "1">>,
        industry_code |-> <<"0", "5", "0", "0", "0", "0", "0", "0">>,
        data_type_code |-> "01", seasonal |-> "U"] >>

\* filter_series(series_df, data_type_code)['series_id']
filter_series(df, data_type_code) ==
    { df[j].series_id : j \in { j \in 1..Len(df) :
        /\ df[j].data_type_code = data_type_code
        /\ df[j].seasonal = "S"
        /\ Len(df[j].series_id) >= 3
        /\ SubSeq(df[j].series_id, 1, 3) = <<"C", "E", "S">> } }

\* parse_data_file, lines 144-147: float(row['value']), None on ValueError
CesValue(cell) == IF cell = "125.0" THEN "125.0" ELSE Null

\* parse_data_file, lines 136-151: the loop over the rows of the data file,
\* from row k on.  date is 0 when period_to_date returns None.
RECURSIVE parse_data_file(_, _, _, _)
parse_data_file(rows, wanted, k, series_data) ==
    IF k > Len(rows) THEN series_data
    ELSE LET row == rows[k]
         IN  IF row.series_id \notin wanted \/ row.date = 0
             THEN parse_data_file(rows, wanted, k + 1, series_data)
             ELSE parse_data_file(rows, wanted, k + 1,
                    AppendPoint(series_data, row.series_id,
                                [date |-> row.date, value |-> CesValue(row.cell)]))

\* build_json, lines 165-166: the sort key of a series id
IndustryCode(df, sid) ==
    LET hits == { j \in 1..Len(df) : df[j].series_id = sid }
    IN  IF hits # {} THEN df[CHOOSE j \in hits : \A h \in hits : j <= h].industry_code
        ELSE sid

\* One step of sorted(series_data.keys(), key=...): stable
InsertByIndustry(df, sorted, sid) ==
    LET k == Cardinality({ i \in 1..Len(sorted) :
                 ~StrLess(IndustryCode(df, sid), IndustryCode(df, sorted[i])) })
    IN  SubSeq(sorted, 1, k) \o <<sid>> \o SubSeq(sorted, k + 1, Len(sorted))

\* build_json, lines 163-167: sorted_ids
RECURSIVE SortedIds(_, _)
SortedIds(df, keys) ==
    IF keys = <<>> THEN <<>>
    ELSE InsertByIndustry(df, SortedIds(df, SubSeq(keys, 1, Len(keys) - 1)),
                          keys[Len(keys)])

\* build_json, lines 169-190: the loop over sorted_ids, from position k on
RECURSIVE CesBuild(_, _, _, _, _, _)
CesBuild(series_data, df, sorted_ids, k, order, series_list) ==
    IF k > Len(sorted_ids) THEN series_list
    ELSE LET sid         == sorted_ids[k]
             data_points == DictGet(series_data, sid)
         IN  IF Len(data_points) < 2
                \/ { j \in 1..Len(df) : df[j].series_id = sid } = {}
             THEN CesBuild(series_data, df, sorted_ids, k + 1, order, series_list)
             ELSE CesBuild(series_data, df, sorted_ids, k + 1, order + 1,
                    Append(series_list, [id |-> sid, display_order |-> order,
                                         data |-> SortByDate(data_points)]))

\* build_json(series_data, series_df, ..., output_path)
build_json(series_data, df, output_path) ==
    [file |-> output_path,
     series |-> CesBuild(series_data, df,
                         SortedIds(df, [j \in 1..Len(series_data) |-> series_data[j][1]]),
                         1, 0, <<>>)]

\* The items of a dict whose key is in a set
RECURSIVE DictFilter(_, _)
DictFilter(d, keys) ==
    IF d = <<>> THEN <<>>
    ELSE IF Head(d)[1] \in keys THEN <<Head(d)>> \o DictFilter(Tail(d), keys)
    ELSE DictFilter(Tail(d), keys)

\* fetch_ces.run, lines 221-254: the documents written for a data file
CesRun(rows) ==
    LET emp_ids  == filter_series(series_df, "01")
        pay_ids  == filter_series(series_df, "11")
        all_data == parse_data_file(rows, emp_ids \cup pay_ids, 1, <<>>)
    IN  << build_json(DictFilter(all_data, emp_ids), series_df, "ces/employees.json"),
           build_json(DictFilter(all_data, pay_ids), series_df, "ces/payrolls.json") >>

\* ---- fetch_nipa.py ----

\* NIPA_TABLES[0]["table"]
nipa_table == <<"U", "0", "0", "1", "B">>

\* int(s) for a str of digits
RECURSIVE IntOf(_)
IntOf(s) ==
    IF s = <<>> THEN 0
    ELSE 10 * IntOf(SubSeq(s, 1, Len(s) - 1))
         + (CHOOSE d \in 0..9 : Ascii[d + 2] = s[Len(s)])

\* fetch_table, lines 174-178: float(value_str), None on ValueError
NipaValue(cell) ==
    IF cell = "125.0" THEN "125.0"
    ELSE IF cell = "1,250.0" THEN "1250.0"
    ELSE Null

\* fetch_table, lines 138-186: the loop over raw_data, from row k on.  time
\* is the date of TimePeriod, 0 when it does not parse.  The key
\* f"{line_num}_{line_desc}" is the characters of line_num, "_", and the
\* description as one token.
RECURSIVE NipaGroup(_, _, _)
NipaGroup(raw_data, k, series_map) ==
    IF k > Len(raw_data) THEN series_map
    ELSE LET row == raw_data[k]
         IN  IF row.time = 0 THEN NipaGroup(raw_data, k + 1, series_map)
             ELSE NipaGroup(raw_data, k + 1,
                    AppendPoint(series_map, row.line_num \o <<"_", row.line_desc>>,
                                [date |-> row.time, value |-> NipaValue(row.cell)]))

\* info["line_num"] of an item of series_map: the part of its key before
\* the first "_" (a LineNumber holds no "_")
LineNum(item) == SplitOnce(item[1], "_")[1]

\* fetch_table, line 190: the sort key
LineKey(item) == IF str_isdigit(LineNum(item)) THEN IntOf(LineNum(item)) ELSE 9999

\* One step of sorted(series_map.items(), key=...): stable
InsertByLine(sorted, item) ==
    LET k == Cardinality({ i \in 1..Len(sorted) : LineKey(sorted[i]) <= LineKey(item) })
    IN  SubSeq(sorted, 1, k) \o <<item>> \o SubSeq(sorted, k + 1, Len(sorted))

RECURSIVE SortedByLine(_)
SortedByLine(series_map) ==
    IF series_map = <<>> THEN <<>>
    ELSE InsertByLine(SortedByLine(SubSeq(series_map, 1, Len(series_map) - 1)),
                      series_map[Len(series_map)])

\* fetch_table, lines 189-199: the loop over enumerate(sorted(...))
RECURSIVE NipaBuild(_, _, _)
NipaBuild(items, i, series_list) ==
    IF i >= Len(items) THEN series_list
    ELSE LET data == SortByDate(items[i + 1][2])
         IN  IF Len(data) < 2 THEN NipaBuild(items, i + 1, series_list)
             ELSE NipaBuild(items, i + 1,
                    Append(series_list,
                           [id |-> nipa_table \o <<"_">> \o LineNum(items[i + 1]),
                            display_order |-> i, data |-> data]))

\* fetch_nipa.run, lines 221-223, for the first table: fetch_table returns
\* None for no rows, and the document is written if it holds a series
NipaRun(raw_data) ==
    LET series_list == NipaBuild(SortedByLine(NipaGroup(raw_data, 1, <<>>)), 0, <<>>)
    IN  IF raw_data = <<>> \/ series_list = <<>> THEN <<>>
        ELSE << [file |-> "nipa/1bu.json", series |-> series_list] >>

\* ---- fetch_fred.py ----

\* IP_SERIES: its first two series
IP_SERIES == << <<"I", "P", "G", "2", "1", "1", "S">>,
                <<"I", "P", "G", "2", "1", "1", "1", "2", "S">> >>

\* fetch_fred_series, lines 306-309
FredValue(val_str) ==
    IF val_str = "" \/ val_str = "." THEN Null
    ELSE IF val_str = "101.5" THEN "101.5"
    ELSE Null

\* fetch_fred_series, lines 302-313: the points of the observations, in the
\* order of the response.  date is 0 for an observation without a date.
RECURSIVE fetch_fred_series(_)
fetch_fred_series(observations) ==
    IF observations = <<>> THEN <<>>
    ELSE LET obs == observations[Len(observations)]
             before == fetch_fred_series(SubSeq(observations, 1, Len(observations) - 1))
         IN  IF obs.date # 0
             THEN Append(before, [date |-> obs.date, value |-> FredValue(obs.value)])
             ELSE before

\* fetch_fred.run, lines 324-343: the loop over enumerate(IP_SERIES), from
\* index i on.  responses[i + 1] is what the request for the series gave:
\* the observations, or an exception after the last retry.
RECURSIVE FredBuild(_, _, _)
FredBuild(responses, i, series_list) ==
    IF i >= Len(IP_SERIES) THEN series_list
    ELSE IF responses[i + 1].raised THEN FredBuild(responses, i + 1, series_list)
    ELSE LET data == fetch_fred_series(responses[i + 1].observations)
         IN  IF Len(data) >= 2
             THEN FredBuild(responses, i + 1,
                    Append(series_list, [id |-> IP_SERIES[i + 1],
                                         display_order |-> i, data |-> data]))
             ELSE FredBuild(responses, i + 1, series_list)

\* fetch_fred.run, lines 322-356: the document is written in every case
FredRun(responses) ==
    << [file |-> "industrial_production/industrial_production.json",
        series |-> FredBuild(responses, 0, <<>>)] >>

\* ---- fetch_unemployment.py ----

\* SERIES: its first two series
SERIES == << <<"L", "N", "U", "0", "4", "0", "0", "0", "0", "0", "0">>,
             <<"L", "N", "U", "0", "4", "0", "3", "2", "2", "3", "0">> >>

\* fetch_unemployment.run, lines 68-80: the data points of one response,
\* from point k on; a point without date or with a value that is no float
\* is left out.  The points of a response are listed series by series.
RECURSIVE UnempCollect(_, _, _)
UnempCollect(points, k, all_data) ==
    IF k > Len(points) THEN all_data
    ELSE LET dp == points[k]
         IN  IF dp.date = 0 \/ dp.cell # "4.2"
             THEN UnempCollect(points, k + 1,
                    IF DictHas(all_data, dp.series_id) THEN all_data
                    ELSE Append(all_data, <<dp.series_id, <<>>>>))
             ELSE UnempCollect(points, k + 1,
                    AppendPoint(all_data, dp.series_id,
                                [date |-> dp.date, value |-> dp.cell]))

\* fetch_unemployment.run, lines 49-83: the loop over the two year ranges;
\* a response whose status is not REQUEST_SUCCEEDED is skipped
RECURSIVE UnempResponses(_, _, _)
UnempResponses(responses, k, all_data) ==
    IF k > Len(responses) THEN all_data
    ELSE IF responses[k].status # "REQUEST_SUCCEEDED"
         THEN UnempResponses(responses, k + 1, all_data)
         ELSE UnempResponses(responses, k + 1,
                             UnempCollect(responses[k].data, 1, all_data))

\* fetch_unemployment.run, lines 90-95: the first point of every date
RECURSIVE Unique(_)
Unique(points) ==
    IF points = <<>> THEN <<>>
    ELSE LET before == Unique(SubSeq(points, 1, Len(points) - 1))
             p      == points[Len(points)]
         IN  IF \E j \in 1..Len(before) : before[j].date = p.date THEN before
             ELSE Append(before, p)

\* fetch_unemployment.run, lines 85-104: the loop over enumerate(SERIES)
RECURSIVE UnempBuild(_, _, _)
UnempBuild(all_data, i, series_list) ==
    IF i >= Len(SERIES) THEN series_list
    ELSE LET sid    == SERIES[i + 1]
             points == IF DictHas(all_data, sid) THEN DictGet(all_data, sid) ELSE <<>>
             unique == Unique(SortByDate(points))
         IN  IF Len(unique) < 2 THEN UnempBuild(all_data, i + 1, series_list)
             ELSE UnempBuild(all_data, i + 1,
                    Append(series_list, [id |-> sid, display_order |-> i,
                                         data |-> unique]))

\* fetch_unemployment.run, lines 48-117
UnempRun(responses) ==
    << [file |-> "unemployment/unemployment.json",
        series |-> UnempBuild(UnempResponses(responses, 1, <<>>), 0, <<>>)] >>

\* ---- fetch_construction.py ----

\* f"{n:03d}" for n < 1000
Pad3(n) == << Ascii[(n \div 100) + 2], Ascii[((n \div 10) % 10) + 2], Ascii[(n % 10) + 2] >>

\* fetch_construction.run, line 118: if len(data_points) >= 12
MinConstructionPoints == 12

\* fetch_construction.run, lines 97-112: series_data[j], the points of
\* category column j, from data row i on.  A row is [date, cells]; date is
\* 0 when parse_date_cell returns None; a cell is a number, None ("None")
\* or a text that float() rejects.
RECURSIVE ColumnPoints(_, _, _)
ColumnPoints(rows, j, i) ==
    IF i > Len(rows) THEN <<>>
    ELSE IF rows[i].date # 0 /\ j <= Len(rows[i].cells) /\ rows[i].cells[j] = "850.0"
         THEN << [date |-> rows[i].date, value |-> rows[i].cells[j]] >>
              \o ColumnPoints(rows, j, i + 1)
         ELSE ColumnPoints(rows, j, i + 1)

\* fetch_construction.run, lines 115-124: the loop over the category
\* columns 1..n in order, from column j on
RECURSIVE ConstructionBuild(_, _, _, _)
ConstructionBuild(rows, n, j, series_list) ==
    IF j > n THEN series_list
    ELSE LET data_points == SortByDate(ColumnPoints(rows, j, 1))
         IN  IF Len(data_points) >= MinConstructionPoints
             THEN ConstructionBuild(rows, n, j + 1,
                    Append(series_list,
                           [id |-> <<"C", "O", "N", "S", "T", "_">> \o Pad3(Len(series_list)),
                            display_order |-> Len(series_list),
                            data |-> data_points]))
             ELSE ConstructionBuild(rows, n, j + 1, series_list)

\* fetch_construction.run, lines 68-141: nothing is written for a header of
\* fewer than 5 category columns
ConstructionRun(sheet) ==
    IF sheet.categories < 5 THEN <<>>
    ELSE << [file |-> "construction/construction.json",
             series |-> ConstructionBuild(sheet.rows, sheet.categories, 1, <<>>)] >>

\* ---- fetch_fed_surveys.py ----

\* SOURCES: its first two keys, as city and survey type
SOURCES == << [city |-> <<"P", "H", "I", "L", "L", "Y">>, survey_type |-> "mfg"],
              [city |-> <<"P", "H", "I", "L", "L", "Y">>, survey_type |-> "svc"] >>

\* build_series_list, lines 596-598: fewer than 2 points with a value
FedTooFew(data_points) ==
    Cardinality({ j \in 1..Len(data_points) : data_points[j].value # Null }) < 2

\* build_series_list, lines 594-609: the loop over parsed.items(), from
\* item k on
RECURSIVE build_series_list(_, _, _, _, _)
build_series_list(parsed, city_key, k, order, series_list) ==
    IF k > Len(parsed) THEN series_list
    ELSE IF FedTooFew(parsed[k][2])
         THEN build_series_list(parsed, city_key, k + 1, order, series_list)
         ELSE build_series_list(parsed, city_key, k + 1, order + 1,
                Append(series_list, [id |-> city_key \o <<"_">> \o parsed[k][1],
                                     display_order |-> order,
                                     data |-> SortByDate(parsed[k][2])]))

\* fetch_fed_surveys.run, lines 653-663: the series of the sources of one
\* survey type, from source k on; a source that raised adds nothing
RECURSIVE FedCollect(_, _, _)
FedCollect(responses, survey_type, k) ==
    IF k > Len(SOURCES) THEN <<>>
    ELSE IF SOURCES[k].survey_type # survey_type \/ responses[k].raised
         THEN FedCollect(responses, survey_type, k + 1)
         ELSE build_series_list(responses[k].parsed, SOURCES[k].city, 1, 0, <<>>)
              \o FedCollect(responses, survey_type, k + 1)

\* fetch_fed_surveys.run, lines 665-668: s["display_order"] = i
Renumber(series) ==
    [i \in 1..Len(series) |->
        [id |-> series[i].id, display_order |-> i - 1, data |-> series[i].data]]

\* fetch_fed_surveys.run, lines 650-695: a document is written if it holds
\* a series
FedRun(responses) ==
    LET mfg_series == Renumber(FedCollect(responses, "mfg", 1))
        svc_series == Renumber(FedCollect(responses, "svc", 1))
    IN  (IF mfg_series # <<>>
         THEN << [file |-> "fed_surveys/fed_mfg.json", series |-> mfg_series] >>
         ELSE <<>>)
        \o (IF svc_series # <<>>
            THEN << [file |-> "fed_surveys/fed_svc.json", series |-> svc_series] >>
            ELSE <<>>)

(***************************************************************************)
(* post_process.py: the derived documents                                  *)
(*                                                                         *)
(* The JSON tree is a function from path to document; a document is        *)
(* [exists, series] and a series [id, name, display_order, data].  Every   *)
(* sub-step gives the tree it leaves and the documents it saved, in order. *)
(***************************************************************************)

\* s.rsplit("_", 1): at most one split, at the last "_"
rsplit(sid) ==
    LET at == { k \in 1..Len(sid) : sid[k] = "_" }
    IN  IF at = {} THEN <<sid>>
        ELSE LET p == CHOOSE k \in at : \A h \in at : h <= k
             IN  <<SubSeq(sid, 1, p - 1), SubSeq(sid, p + 1, Len(sid))>>

\* QSS_CATEGORIES of fix_qss_labels_data, a module that is not among the
\* repository's files: two of its labels
QSS_CATEGORIES ==
    << << <<"2", "2", "1", "1", "T">>, <<"Electric Power Generation">> >>,
       << <<"5", "4", "1", "5", "T">>, <<"Computer Systems Design">> >> >>

\* load_json(subpath): the document, or None (AbsentDoc) with a warning
pp_load_json(tree, subpath) ==
    IF tree[subpath].exists THEN tree[subpath] ELSE [exists |-> FALSE, series |-> <<>>]

\* Mutant of Enumerated: every series gets display_order 0.
Enumerated_AllZero(series_list) ==
    [i \in 1..Len(series_list) |-> [series_list[i] EXCEPT !.display_order = 0]]

\* for i, s in enumerate(series_list): s["display_order"] = i
Enumerated(series_list) ==
    [i \in 1..Len(series_list) |-> [series_list[i] EXCEPT !.display_order = i - 1]]

Saved(tree, subpath, series) == [tree EXCEPT ![subpath] = [exists |-> TRUE, series |-> series]]

\* Mutant of QssLabelled: the label is added to the name the series has.
QssLabelled_AddsToName(series, cat, order) ==
    [series EXCEPT !.name = @ \o (IF DictHas(QSS_CATEGORIES, cat)
                                   THEN DictGet(QSS_CATEGORIES, cat) ELSE cat),
                   !.display_order = order]

\* process_qss, lines 58-60: s["name"] = QSS_CATEGORIES.get(cat, cat) and
\* s["display_order"] = len(filtered)
QssLabelled(series, cat, order) ==
    [series EXCEPT !.name = IF DictHas(QSS_CATEGORIES, cat)
                            THEN DictGet(QSS_CATEGORIES, cat) ELSE cat,
                   !.display_order = order]

\* process_qss, lines 48-61: the loop over data["series"], from series k on
RECURSIVE QssFiltered(_, _, _)
QssFiltered(series, k, filtered) ==
    IF k > Len(series) THEN filtered
    ELSE LET parts == rsplit(series[k].id)
         IN  IF Len(parts) # 2 \/ parts[2] # <<"Q", "R", "E", "V">>
             THEN QssFiltered(series, k + 1, filtered)
             ELSE QssFiltered(series, k + 1,
                    Append(filtered, QssLabelled(series[k], parts[1], Len(filtered))))

\* process_qss()
process_qss(tree) ==
    LET data == pp_load_json(tree, "qss/qss.json")
    IN  IF ~data.exists THEN [tree |-> tree, saved |-> <<>>]
        ELSE LET filtered == QssFiltered(data.series, 1, <<>>)
             IN  [tree  |-> Saved(tree, "qss/qss.json", filtered),
                  saved |-> << [file |-> "qss/qss.json", series |-> filtered] >>]

\* process_wholesale, lines 77-89: the series of data["series"] whose id
\* ends in "_" and one of the data types
OfTypes(series, dtypes) ==
    SelectSeq(series, LAMBDA x : Len(rsplit(x.id)) = 2 /\ rsplit(x.id)[2] \in dtypes)

\* process_wholesale()
process_wholesale(tree) ==
    LET data == pp_load_json(tree, "wholesale/wholesale.json")
        sales     == Enumerated(OfTypes(data.series, { <<"S", "M">> }))
        inventory == Enumerated(OfTypes(data.series, { <<"E", "I">>, <<"I", "M">> }))
        ratio     == Enumerated(OfTypes(data.series, { <<"S", "I">>, <<"I", "R">> }))
        saved == (IF sales # <<>>
                  THEN << [file |-> "wholesale/wholesale_sales.json", series |-> sales] >>
                  ELSE <<>>)
                 \o (IF inventory # <<>>
                     THEN << [file |-> "wholesale/wholesale_inventory.json",
                              series |-> inventory] >>
                     ELSE <<>>)
                 \o (IF ratio # <<>>
                     THEN << [file |-> "wholesale/wholesale_ratio.json", series |-> ratio] >>
                     ELSE <<>>)
    IN  IF ~data.exists THEN [tree |-> tree, saved |-> <<>>]
        ELSE [tree  |-> [f \in DOMAIN tree |->
                           IF \E k \in 1..Len(saved) : saved[k].file = f
                           THEN [exists |-> TRUE,
                                 series |-> saved[CHOOSE k \in 1..Len(saved) :
                                                    saved[k].file = f].series]
                           ELSE tree[f]],
              saved |-> saved]

\* process_ces_pbs()
process_ces_pbs(tree) ==
    LET data == pp_load_json(tree, "ces/employees.json")
        pbs  == Enumerated(SelectSeq(data.series,
                    LAMBDA x : PySlice(x.id, 0, 5) = <<"C", "E", "S", "6", "0">>))
    IN  IF ~data.exists THEN [tree |-> tree, saved |-> <<>>]
        ELSE [tree  |-> Saved(tree, "ces/employees_pbs.json", pbs),
              saved |-> << [file |-> "ces/employees_pbs.json", series |-> pbs] >>]

\* target_ids of process_analysis: its first four ids
target_ids ==
    << <<"C", "E", "S", "0", "0", "0", "0", "0", "0", "0", "0", "0", "1">>,
       <<"C", "E", "S", "6", "0", "0", "0", "0", "0", "0", "0", "0", "1">>,
       <<"C", "E", "S", "6", "0", "5", "4", "0", "0", "0", "0", "0", "1">>,
       <<"C", "E", "S", "6", "0", "5", "4", "1", "5", "0", "0", "0", "1">> >>

\* process_analysis, lines 164-174: the loop over enumerate(target_ids), from
\* index i on; lookup[sid] is the last series of the document with that id
RECURSIVE AnalysisSeries(_, _, _)
AnalysisSeries(series, i, analysis) ==
    IF i >= Len(target_ids) THEN analysis
    ELSE LET hits == { k \in 1..Len(series) : series[k].id = target_ids[i + 1] }
         IN  IF hits = {} THEN AnalysisSeries(series, i + 1, analysis)
             ELSE LET found == series[CHOOSE k \in hits : \A h \in hits : h <= k]
                  IN  AnalysisSeries(series, i + 1,
                        Append(analysis, [id |-> found.id, name |-> found.name,
                                          display_order |-> i, data |-> found.data]))

\* process_analysis()
process_analysis(tree) ==
    LET data == pp_load_json(tree, "ces/employees.json")
        analysis == AnalysisSeries(data.series, 0, <<>>)
    IN  IF ~data.exists THEN [tree |-> tree, saved |-> <<>>]
        ELSE [tree  |-> Saved(tree, "analysis/ai_employment.json", analysis),
              saved |-> << [file |-> "analysis/ai_employment.json", series |-> analysis] >>]

\* copy_calendar(): shutil.copy2(src, dst) when src exists
copy_calendar(tree) ==
    IF ~tree["config/release_calendar.json"].exists THEN [tree |-> tree, saved |-> <<>>]
    ELSE [tree  |-> [tree EXCEPT !["calendar/release_calendar.json"] =
                                    tree["config/release_calendar.json"]],
          saved |-> << [file |-> "calendar/release_calendar.json",
                        series |-> tree["config/release_calendar.json"].series] >>]

\* post_process.run, lines 210-214: the sub-steps in the order of the calls
PostSteps == << "process_qss", "process_wholesale", "process_ces_pbs",
               "process_analysis", "copy_calendar" >>

\* Mutant of PostStep: process_ces_pbs reads data["series"] without the test
\* of line 118 and raises on None.
PostStep_NoGuard(step, tree) ==
    IF step = "process_qss" THEN process_qss(tree) @@ [raised |-> FALSE]
    ELSE IF step = "process_wholesale" THEN process_wholesale(tree) @@ [raised |-> FALSE]
    ELSE IF step = "process_ces_pbs"
         THEN process_ces_pbs(tree) @@ [raised |-> ~tree["ces/employees.json"].exists]
    ELSE IF step = "process_analysis" THEN process_analysis(tree) @@ [raised |-> FALSE]
    ELSE copy_calendar(tree) @@ [raised |-> FALSE]

\* The call of one sub-step: none of them raises for an absent input
PostStep(step, tree) ==
    IF step = "process_qss" THEN process_qss(tree) @@ [raised |-> FALSE]
    ELSE IF step = "process_wholesale" THEN process_wholesale(tree) @@ [raised |-> FALSE]
    ELSE IF step = "process_ces_pbs" THEN process_ces_pbs(tree) @@ [raised |-> FALSE]
    ELSE IF step = "process_analysis" THEN process_analysis(tree) @@ [raised |-> FALSE]
    ELSE copy_calendar(tree) @@ [raised |-> FALSE]

\* post_process.run() as one call: the documents saved, in order
RECURSIVE PostRun(_, _)
PostRun(tree, k) ==
    IF k > Len(PostSteps) THEN <<>>
    ELSE LET r == PostStep(PostSteps[k], tree)
         IN  r.saved \o PostRun(r.tree, k + 1)

(***************************************************************************)
(* Inputs of the resolvers                                                 *)
(***************************************************************************)

MaxIdLen == 3

\* Characters of the generated ids: digits, an upper- and a lower-case
\* letter, the separator, and a character that is neither digit nor letter.
IdChars == {"0", "4", "T", "t", "_", "-"}

RECURSIVE StringsUpTo(_)
StringsUpTo(n) ==
    IF n = 0 THEN {<<>>}
    ELSE LET shorter == StringsUpTo(n - 1)
         IN  shorter \cup { Append(s, c) : s \in { t \in shorter : Len(t) = n - 1 },
                                            c \in IdChars }

GeneratedIds == StringsUpTo(MaxIdLen)

\* Ids named by the specification, and neighbours of them.
ExampleIds ==
    { <<"1", "1", "A", "_", "V", "S">>,
      <<"M", "T", "M", "_", "S", "M">>,
      <<"4", "2", "3", "1", "_", "S", "M">>,
      <<"A", "B", "C", "D", "_", "S", "M">>,
      <<"4", "2", "3", "1", "_", "S", "_", "M">>,
      <<"2", "2", "1", "1", "T", "_", "Q", "R", "E", "V">>,
      <<"4", "8", "4", "9", "Y", "T", "_", "Q", "R", "E", "V">>,
      <<"0", "0", "0", "0", "0", "0", "T", "_", "Q", "R", "E", "V">>,
      <<"0", "0", "0", "0", "0", "0">>,
      <<"0", "0", "0", "0", "0", "0", "0", "T", "_", "Q", "R", "E", "V">>,
      <<"0", "0", "0", "0", "0", "T", "_", "Q", "R", "E", "V">>,
      <<"T", "2", "2", "T", "1", "_", "Q", "R", "E", "V">> }

\* M3 ids: every code of the table, and two unknown ones, with a metric.
M3Suffixes == { <<>>, <<"_", "V", "S">>, <<"_", "S", "M">>,
                <<"_", "M", "P", "C">>, <<"_", "V", "_", "S">> }

M3Ids == { code \o suf : code \in DOMAIN m3_naics \cup {<<"Z", "Z", "Z">>, <<"1", "1">>},
                         suf \in M3Suffixes }

\* A second M3 map, keyed by generated codes, holding the value shapes the
\* resolver distinguishes: "-", "composite", "(", "-" inside, a comma list,
\* a single code, an empty value.
TestM3Map ==
    <<"4">>      :> [naics |-> dash,                             name |-> <<"Dash">>] @@
    <<"0">>      :> [naics |-> <<"3", "1", ",", "3", "2">>,      name |-> <<"List">>] @@
    <<"T">>      :> [naics |-> composite,                        name |-> <<"Composite">>] @@
    <<"t">>      :> [naics |-> <<"3", "1", " ", "(", "x", ")">>, name |-> <<"Other">>] @@
    <<"4", "4">> :> [naics |-> <<"3", "1", "-", "3", "3">>,      name |-> <<"Range">>] @@
    <<"0", "T">> :> [naics |-> <<"3", "3", "6">>,                name |-> <<"Single">>] @@
    <<"-">>      :> [naics |-> <<>>,                             name |-> <<"Empty">>] @@
    <<>>         :> [naics |-> <<",", "3", "1">>,                name |-> <<"LeadingComma">>]

\* m3_map = load_config("m3_naics_map.json") or {}
M3MapNames == {"m3_naics", "test", "missing"}
M3MapOf(n) == IF n = "m3_naics" THEN m3_naics
              ELSE IF n = "test" THEN TestM3Map
              ELSE [c \in {} |-> [naics |-> <<>>, name |-> <<>>]]

\* CES establishment codes and a ces_naics_map.json over some of them.
EstCodes ==
    { <<"0", "0", "0", "0", "0", "0", "0", "0">>,
      <<"6", "0", "5", "4", "1", "5", "0", "0">>,
      <<"1", "0", "2", "1", "1", "0", "0", "0">>,
      <<"S", "6", "0", "5", "4", "1", "5", "0">>,
      <<"0", "6", "0", "5", "4", "1", "5", "0">>,
      <<"9", "9", "9", "9", "9", "9", "9", "9">> }

TestCesMap ==
    <<"0", "0", "0", "0", "0", "0", "0", "0">> :>
        [naics |-> dash, name |-> <<"Total nonfarm">>] @@
    <<"6", "0", "5", "4", "1", "5", "0", "0">> :>
        [naics |-> <<"5", "4", "1", "5">>, name |-> <<"Computer systems design">>] @@
    <<"1", "0", "2", "1", "1", "0", "0", "0">> :>
        [naics |-> <<"2", "1", "1">>, name |-> <<"Oil and gas extraction">>] @@
    <<"1", "0", "0", "0", "0", "0", "0", "0">> :>
        [naics |-> <<"2", "1">>, name |-> <<"Mining and logging">>] @@
    <<"S", "6", "0", "5", "4", "1", "5", "0">> :>
        [naics |-> <<"9", "9">>, name |-> <<"Shifted left">>] @@
    <<"0", "6", "0", "5", "4", "1", "5", "0">> :>
        [naics |-> <<"8", "8">>, name |-> <<"Shifted right">>]

\* ces_map = load_config("ces_naics_map.json") or {}
CesMapNames == {"test", "missing"}
CesMapOf(n) == IF n = "test" THEN TestCesMap
               ELSE [c \in {} |-> [naics |-> <<>>, name |-> <<>>]]

\* CES ids: "CES" + establishment code + data type, and every prefix of one.
CesFullIds == { <<"C", "E", "S">> \o est \o dt
                  : est \in EstCodes, dt \in { <<"0", "1">>, <<"8", "2">>, <<"0">>, <<>> } }

CesIds == { SubSeq(id, 1, IF n < Len(id) THEN n ELSE Len(id))
              : id \in CesFullIds, n \in {0, 3, 10, 11, 12, 13} }

(***************************************************************************)
(* Actions: one resolver call each, made from the state before any call    *)
(***************************************************************************)

NoCall == [family |-> "none", sid |-> <<>>, map |-> "none"]

ResolveIdle == rs_call = NoCall /\ rs_result = <<>>

\* run, lines 266-267: naics, naics_name = resolve_naics_ces(sid, ces_map)
ResolveCes ==
    \E sid \in CesIds \cup GeneratedIds, m \in CesMapNames :
        /\ rs_call = NoCall
        /\ rs_call' = [family |-> "CES", sid |-> sid, map |-> m]
        /\ rs_result' = resolve_naics_ces(sid, CesMapOf(m))

\* run, lines 268-269: naics, naics_name = resolve_naics_m3(sid, m3_map)
ResolveM3 ==
    \E sid \in M3Ids \cup GeneratedIds \cup ExampleIds, m \in M3MapNames :
        /\ rs_call = NoCall
        /\ rs_call' = [family |-> "M3", sid |-> sid, map |-> m]
        /\ rs_result' = resolve_naics_m3(sid, M3MapOf(m))

\* run, lines 270-271: naics = resolve_naics_wholesale(sid)
ResolveWholesale ==
    \E sid \in GeneratedIds \cup ExampleIds :
        /\ rs_call = NoCall
        /\ rs_call' = [family |-> "Wholesale", sid |-> sid, map |-> "none"]
        /\ rs_result' = <<resolve_naics_wholesale(sid)>>

\* run, lines 272-273: naics = resolve_naics_qss(sid)
ResolveQss ==
    \E sid \in GeneratedIds \cup ExampleIds :
        /\ rs_call = NoCall
        /\ rs_call' = [family |-> "QSS", sid |-> sid, map |-> "none"]
        /\ rs_result' = <<resolve_naics_qss(sid)>>

ResolveNext == ResolveCes \/ ResolveM3 \/ ResolveWholesale \/ ResolveQss

(***************************************************************************)
(* Inputs of the index builder: the documents the fetchers left on disk    *)
(***************************************************************************)

\* The observations of a series with n points (the builder never reads them).
Points(n) ==
    SubSeq(<< [date |-> "2024-01-01", value |-> 1],
              [date |-> "2024-02-01", value |-> 2],
              [date |-> "2024-03-01", value |-> 3] >>, 1, n)

AbsentDoc == [exists |-> FALSE, series |-> <<>>]

\* A document whose series list is empty.
NoSeriesDoc == [exists |-> TRUE, series |-> <<>>]

\* ces/employees.json: a series named as its map entry, the total (code "-"),
\* an establishment code that is not in the map
CesDocA ==
    [exists |-> TRUE, series |-> <<
       [id |-> <<"C", "E", "S", "6", "0", "5", "4", "1", "5", "0", "0", "0", "1">>,
        name |-> <<"Computer systems design">>, data |-> Points(3)],
       [id |-> <<"C", "E", "S", "0", "0", "0", "0", "0", "0", "0", "0", "0", "1">>,
        name |-> <<"Total nonfarm">>, data |-> Points(3)],
       [id |-> <<"C", "E", "S", "9", "9", "9", "9", "9", "9", "9", "9", "0", "1">>,
        name |-> <<"Unclassified">>, data |-> Points(2)] >>]

\* ces/employees.json: series named differently from their map entries,
\* one of them mapped to a 2-digit sector code under another name
CesDocB ==
    [exists |-> TRUE, series |-> <<
       [id |-> <<"C", "E", "S", "6", "0", "5", "4", "1", "5", "0", "0", "0", "1">>,
        name |-> <<"Computer systems design employment">>, data |-> Points(2)],
       [id |-> <<"C", "E", "S", "1", "0", "2", "1", "1", "0", "0", "0", "0", "1">>,
        name |-> <<"Oil and gas">>, data |-> Points(2)],
       [id |-> <<"C", "E", "S", "1", "0", "0", "0", "0", "0", "0", "0", "0", "1">>,
        name |-> <<"Mining and logging employment">>, data |-> Points(2)] >>]

\* m3/m3.json: ids category_datatype as fetch_m3 builds them, with the
\* percent-change and ratio data types
M3DocA ==
    [exists |-> TRUE, series |-> <<
       [id |-> <<"1", "1", "A", "_", "V", "S">>,
        name |-> <<"Grain and Oilseed Milling - Value of Shipments">>, data |-> Points(3)],
       [id |-> <<"1", "1", "A", "_", "M", "P", "C", "V", "S">>,
        name |-> <<"Grain and Oilseed Milling - Monthly Percent Change Value of Shipments">>, data |-> Points(3)],
       [id |-> <<"M", "T", "M", "_", "I", "S">>,
        name |-> <<"Total Manufacturing - Inventories/Shipments Ratio">>, data |-> Points(3)],
       [id |-> <<"M", "T", "M", "_", "T", "I">>,
        name |-> <<"Total Manufacturing - Total Inventories">>, data |-> Points(2)],
       [id |-> <<"1", "1", "A", "_", "M", "P", "C">>,
        name |-> <<"Grain and Oilseed Milling - Percent Change">>, data |-> Points(2)] >>]

\* m3/m3.json: two series, one with 1 observation and one with 3
M3DocB ==
    [exists |-> TRUE, series |-> <<
       [id |-> <<"1", "1", "B", "_", "V", "S">>,
        name |-> <<"Dairy Product Manufacturing - Value of Shipments">>, data |-> Points(1)],
       [id |-> <<"1", "1", "A", "_", "V", "S">>,
        name |-> <<"Grain and Oilseed Milling - Value of Shipments">>, data |-> Points(3)] >>]

\* m3/m3.json: two categories that m3_naics maps to one code, 315
M3DocC ==
    [exists |-> TRUE, series |-> <<
       [id |-> <<"1", "5", "A", "_", "V", "S">>,
        name |-> <<"Apparel Manufacturing - Value of Shipments">>, data |-> Points(2)],
       [id |-> <<"1", "5", "S", "_", "V", "S">>,
        name |-> <<"Apparel - Value of Shipments">>, data |-> Points(2)],
       [id |-> <<"1", "1", "S", "_", "V", "S">>,
        name |-> <<"Food Products - Value of Shipments">>, data |-> Points(2)] >>]

\* qss/qss.json
QssDocA ==
    [exists |-> TRUE, series |-> <<
       [id |-> <<"2", "2", "1", "1", "T", "_", "Q", "R", "E", "V">>,
        name |-> <<"Electric power">>, data |-> Points(2)],
       [id |-> <<"0", "0", "0", "0", "0", "0", "T", "_", "Q", "R", "E", "V">>,
        name |-> <<"All services">>, data |-> Points(2)],
       [id |-> <<"5", "4", "1", "5", "T", "_", "Q", "R", "E", "V">>,
        name |-> <<"Computer systems design">>, data |-> Points(2)] >>]

\* wholesale/wholesale_sales.json: a code of a sector, no code, a code
\* that M3 also maps, a code of no sector, an id the M3 pattern matches
WholesaleDocA ==
    [exists |-> TRUE, series |-> <<
       [id |-> <<"4", "2", "3", "1", "_", "S", "M">>,
        name |-> <<"Motor vehicles">>, data |-> Points(2)],
       [id |-> <<"A", "B", "C", "D", "_", "S", "M">>,
        name |-> <<"Unknown">>, data |-> Points(2)],
       [id |-> <<"3", "1", "1", "_", "S", "M">>,
        name |-> <<"Food wholesale">>, data |-> Points(2)],
       [id |-> <<"9", "9", "_", "S", "M">>,
        name |-> <<"Other">>, data |-> Points(2)],
       [id |-> <<"4", "2", "_", "I", "S">>,
        name |-> <<"Inventories/sales ratio">>, data |-> Points(2)] >>]

\* A document of a section without resolver; its second series has no name.
PlainDoc ==
    [exists |-> TRUE, series |-> <<
       [id |-> <<"S", "1">>,
        name |-> <<"Series one">>, data |-> Points(2)],
       [id |-> <<"S", "2">>,
        name |-> NoneVal, data |-> Points(2)] >>]

\* The position of a data file in DATA_FILE_PAGES
FilePos(file) == CHOOSE k \in 1..Len(DATA_FILE_PAGES) : DATA_FILE_PAGES[k].file = file

CesDocs       == {AbsentDoc, CesDocA, CesDocB}
M3Docs        == {AbsentDoc, M3DocA, M3DocB, M3DocC}
QssDocs       == {AbsentDoc, NoSeriesDoc, QssDocA}
WholesaleDocs == {AbsentDoc, WholesaleDocA}
PlainDocs     == {AbsentDoc, PlainDoc}

\* The data files whose document varies on its own; every other data file
\* holds the same document, or all of them are absent.
VariedFiles == << "ces/employees.json", "m3/m3.json", "qss/qss.json",
                  "wholesale/wholesale_sales.json" >>

Disks ==
    { [k \in 1..Len(DATA_FILE_PAGES) |->
          IF k = FilePos(VariedFiles[1]) THEN c
          ELSE IF k = FilePos(VariedFiles[2]) THEN m
          ELSE IF k = FilePos(VariedFiles[3]) THEN q
          ELSE IF k = FilePos(VariedFiles[4]) THEN w
          ELSE o]
        : c \in CesDocs, m \in M3Docs, q \in QssDocs, w \in WholesaleDocs,
          o \in PlainDocs }

\* load_config(...) or {}: each map file is there or missing
IndexMaps == [ces_map : CesMapNames, m3_map : {"m3_naics", "missing"}]

(***************************************************************************)
(* Actions of build_search_index.run                                       *)
(***************************************************************************)

IndexIdle ==
    /\ disk = <<>> /\ ix_maps = [ces_map |-> "missing", m3_map |-> "missing"]
    /\ ix_pc = "idle" /\ ix_file = 0 /\ entries = <<>>
    /\ stats = [files |-> 0, series |-> 0, naics_mapped |-> 0]
    /\ ix_warnings = <<>> /\ out_index = <<>> /\ out_names = <<>>
    /\ ix_written = {}

\* run, lines 237-243: the state at the top of the loop over the data files
IndexInit ==
    /\ disk \in Disks /\ ix_maps \in IndexMaps
    /\ ix_pc = "loop" /\ ix_file = 1 /\ entries = <<>>
    /\ stats = [files |-> 0, series |-> 0, naics_mapped |-> 0]
    /\ ix_warnings = <<>> /\ out_index = <<>> /\ out_names = <<>>
    /\ ix_written = {}

\* load_json(subpath): None when the path does not exist
load_json(k) == IF disk[k].exists THEN disk[k] ELSE AbsentDoc

\* Mutant of IxSkipFile: a missing data file ends the loop.
IxSkipFile_Abort ==
    /\ ix_pc = "loop" /\ ix_file <= Len(DATA_FILE_PAGES)
    /\ ~load_json(ix_file).exists
    /\ ix_warnings' = Append(ix_warnings, DATA_FILE_PAGES[ix_file].file)
    /\ ix_file' = Len(DATA_FILE_PAGES) + 1
    /\ UNCHANGED <<disk, ix_maps, ix_pc, entries, stats, out_index, out_names,
                   ix_written>>

\* run, lines 245-249: if not data: print WARNING; continue
IxSkipFile ==
    /\ ix_pc = "loop" /\ ix_file <= Len(DATA_FILE_PAGES)
    /\ ~load_json(ix_file).exists
    /\ ix_warnings' = Append(ix_warnings, DATA_FILE_PAGES[ix_file].file)
    /\ ix_file' = ix_file + 1
    /\ UNCHANGED <<disk, ix_maps, ix_pc, entries, stats, out_index, out_names,
                   ix_written>>

\* run, lines 245-304: one iteration over a data file that was loaded
IxIndexFile ==
    /\ ix_pc = "loop" /\ ix_file <= Len(DATA_FILE_PAGES)
    /\ load_json(ix_file).exists
    /\ LET item == DATA_FILE_PAGES[ix_file]
           acc  == ScanSeries(item.file, item.pages, load_json(ix_file).series, 1,
                              CesMapOf(ix_maps.ces_map), M3MapOf(ix_maps.m3_map),
                              [entries |-> entries, series |-> stats.series,
                               naics_mapped |-> stats.naics_mapped])
       IN  /\ entries' = acc.entries
           /\ stats' = [files |-> stats.files + 1, series |-> acc.series,
                        naics_mapped |-> acc.naics_mapped]
    /\ ix_file' = ix_file + 1
    /\ UNCHANGED <<disk, ix_maps, ix_pc, ix_warnings, out_index, out_names,
                   ix_written>>

\* run, lines 306-320: build the names lookup and write the two outputs
IxWrite ==
    /\ ix_pc = "loop" /\ ix_file = Len(DATA_FILE_PAGES) + 1
    /\ out_index' = entries
    /\ out_names' = build_naics_names(entries)
    /\ ix_written' = {"search/search_index.json", "search/naics_names.json"}
    /\ ix_pc' = "returned"
    /\ UNCHANGED <<disk, ix_maps, ix_file, entries, stats, ix_warnings>>

IndexNext == IxSkipFile \/ IxIndexFile \/ IxWrite

(***************************************************************************)
(* Inputs of the fetchers: what the sources returned                       *)
(***************************************************************************)

\* The longest list of rows, observations or data points a source returns.
MaxRows == 3

\* The most data rows of the construction sheet.
MaxSheetRows == 13

\* All sequences over S of length at most n
SeqsOf(S, n) == UNION { [1..k -> S] : k \in 0..n }

\* Rows of the Census M3 response: two categories in two months, an empty
\* and a suppressed cell, an unadjusted row, an error data type, a time
\* that is no month.
M3Rows ==
    { [sa |-> "yes", cat |-> cat, dtype |-> <<"V", "S">>, time |-> t, cell |-> "125.0"]
        : cat \in { <<"1", "1", "B">>, <<"1", "1", "A">> }, t \in {202402, 202401} }
    \cup
    { [sa |-> "yes", cat |-> <<"1", "1", "A">>, dtype |-> <<"V", "S">>,
       time |-> 202403, cell |-> ""],
      [sa |-> "yes", cat |-> <<"1", "1", "A">>, dtype |-> <<"V", "S">>,
       time |-> 202402, cell |-> "(S)"],
      [sa |-> "no", cat |-> <<"1", "1", "A">>, dtype |-> <<"V", "S">>,
       time |-> 202401, cell |-> "125.0"],
      [sa |-> "yes", cat |-> <<"1", "1", "A">>, dtype |-> <<"E", "_", "V", "S">>,
       time |-> 202401, cell |-> "125.0"],
      [sa |-> "yes", cat |-> <<"1", "1", "A">>, dtype |-> <<"V", "S">>,
       time |-> 0, cell |-> "125.0"] }

\* A response longer than MaxRows: three categories, the middle one in one
\* month only, the last one first.
M3Examples ==
    { [k \in 1..5 |->
         [sa |-> "yes",
          cat |-> IF k <= 2 THEN <<"1", "1", "C">>
                  ELSE IF k = 3 THEN <<"1", "1", "B">> ELSE <<"1", "1", "A">>,
          dtype |-> <<"V", "S">>,
          time |-> IF k % 2 = 1 THEN 202402 ELSE 202401,
          cell |-> "125.0"]] }

\* Rows of the Census QSS response, likewise, by quarter.
QssRows ==
    { [sa |-> "yes", cat |-> cat, dtype |-> <<"Q", "R", "E", "V">>,
       time |-> [year |-> 2024, quarter |-> q], cell |-> "125.0"]
        : cat \in { <<"5", "4", "1", "5", "T">>, <<"2", "2", "1", "1", "T">> },
          q \in {2, 1} }
    \cup
    { [sa |-> "yes", cat |-> <<"2", "2", "1", "1", "T">>, dtype |-> <<"Q", "R", "E", "V">>,
       time |-> [year |-> 2023, quarter |-> 4], cell |-> "1,250.0"],
      [sa |-> "yes", cat |-> <<"2", "2", "1", "1", "T">>, dtype |-> <<"Q", "R", "E", "V">>,
       time |-> [year |-> 2024, quarter |-> 3], cell |-> "(S)"],
      [sa |-> "no", cat |-> <<"2", "2", "1", "1", "T">>, dtype |-> <<"Q", "R", "E", "V">>,
       time |-> [year |-> 2024, quarter |-> 1], cell |-> "125.0"],
      [sa |-> "yes", cat |-> <<"2", "2", "1", "1", "T">>, dtype |-> <<"Q", "R", "E", "V">>,
       time |-> [year |-> 0, quarter |-> 0], cell |-> "125.0"] }

\* Rows of ce.data.0.AllCESSeries: the series of series_df in three months,
\* a value that is no number, the annual average M13 (date 0).
CesRows ==
    { [series_id |-> series_df[j].series_id, date |-> d, cell |-> "125.0"]
        : j \in {1, 2}, d \in {202402, 202401} }
    \cup
    { [series_id |-> series_df[3].series_id, date |-> 202402, cell |-> "125.0"],
      [series_id |-> series_df[3].series_id, date |-> 202401, cell |-> "125.0"],
      [series_id |-> series_df[4].series_id, date |-> 202401, cell |-> "125.0"],
      [series_id |-> series_df[2].series_id, date |-> 202403, cell |-> "-"],
      [series_id |-> series_df[1].series_id, date |-> 0, cell |-> "125.0"] }

\* Rows of a BEA response: two lines in two months, a second description
\* under line 1, an empty value, a row without line number, a period that
\* does not parse.
NipaRows ==
    { [line_num |-> l[1], line_desc |-> l[2], time |-> t, cell |-> "125.0"]
        : l \in { << <<"2">>, "Goods" >>, << <<"1">>, "Total" >> },
          t \in {202402, 202401} }
    \cup
    { [line_num |-> <<"1">>, line_desc |-> "Total (revised)", time |-> 202401,
       cell |-> "1,250.0"],
      [line_num |-> <<"1">>, line_desc |-> "Total", time |-> 202403, cell |-> ""],
      [line_num |-> <<>>, line_desc |-> "Addenda", time |-> 202401, cell |-> "125.0"],
      [line_num |-> <<"1">>, line_desc |-> "Total", time |-> 0, cell |-> "125.0"] }

\* A response longer than MaxRows: line 1 under two descriptions, each in
\* two months.
NipaExamples ==
    { [k \in 1..4 |->
         [line_num |-> <<"1">>,
          line_desc |-> IF k <= 2 THEN "Total" ELSE "Total (revised)",
          time |-> IF k % 2 = 1 THEN 202401 ELSE 202402,
          cell |-> "125.0"]] }

\* Observations of a FRED response: three dates with a value or ".", and an
\* observation without date.
FredObservations ==
    { [date |-> d, value |-> v] : d \in {202401, 202402, 202403}, v \in {"101.5", "."} }
    \cup { [date |-> 0, value |-> "101.5"] }

\* What the requests for the two series gave: the first any list of
\* observations or an exception, the second two observations or an exception.
FredResponses ==
    { << r1, r2 >> :
        r1 \in { [raised |-> FALSE, observations |-> o] : o \in SeqsOf(FredObservations, MaxRows) }
               \cup { [raised |-> TRUE, observations |-> <<>>] },
        r2 \in { [raised |-> FALSE,
                  observations |-> << [date |-> 202401, value |-> "101.5"],
                                      [date |-> 202402, value |-> "101.5"] >>],
                 [raised |-> TRUE, observations |-> <<>>] } }

\* Data points of a BLS response.
UnempPoints ==
    { [series_id |-> SERIES[j], date |-> d, cell |-> "4.2"]
        : j \in {1, 2}, d \in {202402, 202401} }
    \cup
    { [series_id |-> SERIES[1], date |-> 202403, cell |-> "-"],
      [series_id |-> SERIES[1], date |-> 0, cell |-> "4.2"] }

\* The responses for the two year ranges: the first any list of points,
\* succeeded or not, the second nothing or one more point.
UnempResponseLists ==
    { << r1, r2 >> :
        r1 \in [status : {"REQUEST_SUCCEEDED", "REQUEST_NOT_PROCESSED"},
                data : SeqsOf(UnempPoints, MaxRows)],
        r2 \in { [status |-> "REQUEST_SUCCEEDED", data |-> <<>>],
                 [status |-> "REQUEST_SUCCEEDED",
                  data |-> << [series_id |-> SERIES[1], date |-> 202404, cell |-> "4.2"] >>] } }

\* The month of data row i of the construction sheet
SheetMonth(i) == (2024 + ((i - 1) \div 12)) * 100 + ((i - 1) % 12) + 1

\* How the cells of a category column are filled.
ColumnFills == {"numbers", "first is text", "first is None", "all None"}

CellOf(fill, i) ==
    IF fill = "numbers" THEN "850.0"
    ELSE IF fill = "first is text" THEN (IF i = 1 THEN "n/a" ELSE "850.0")
    ELSE IF fill = "first is None" THEN (IF i = 1 THEN "None" ELSE "850.0")
    ELSE "None"

\* Sheets of n data rows, newest or oldest month first, with or without a
\* footnote row; the first three of five category columns vary, and some
\* sheets have four category columns only.
Sheets ==
    { [categories |-> c,
       rows |-> [i \in 1..n |->
                    [date  |-> SheetMonth(IF newest_first THEN n + 1 - i ELSE i),
                     cells |-> << CellOf(f[1], i), CellOf(f[2], i), CellOf(f[3], i),
                                  "850.0", "850.0" >>]]
                \o (IF footnote
                    THEN << [date |-> 0, cells |-> <<"850.0", "850.0", "850.0",
                                                     "850.0", "850.0">>] >>
                    ELSE <<>>)]
        : c \in {4, 5}, n \in (MinConstructionPoints - 1)..MaxSheetRows,
          newest_first \in BOOLEAN, footnote \in BOOLEAN,
          f \in [1..3 -> ColumnFills] }

\* The parsed series of a Fed source: two codes over one list of dates,
\* each value a number or missing.
FedDates == {202401, 202402}

FedParsed ==
    UNION { { << << <<"G", "A">>,
                    [i \in 1..Len(dates) |-> [date |-> dates[i], value |-> v1[i]]] >>,
                 << <<"N", "O">>,
                    [i \in 1..Len(dates) |-> [date |-> dates[i], value |-> v2[i]]] >> >>
                : v1 \in [1..Len(dates) -> {"12.5", Null}],
                  v2 \in [1..Len(dates) -> {"12.5", Null}] }
            : dates \in SeqsOf(FedDates, MaxRows) }

\* What the two sources gave: a parsed dict each, or an exception.
FedResponses ==
    { << r1, r2 >> :
        r1 \in { [raised |-> FALSE, parsed |-> d] : d \in FedParsed }
               \cup { [raised |-> TRUE, parsed |-> <<>>] },
        r2 \in { [raised |-> FALSE,
                  parsed |-> << << <<"G", "A">>,
                                   << [date |-> 202401, value |-> "12.5"],
                                      [date |-> 202402, value |-> "12.5"] >> >> >>],
                 [raised |-> TRUE, parsed |-> <<>>] } }

(***************************************************************************)
(* Inputs of the post-processor: the JSON tree the fetchers left           *)
(***************************************************************************)

PpSeries(id, name, order) ==
    [id |-> id, name |-> name, display_order |-> order,
     data |-> << [date |-> 202401, value |-> "125.0"], [date |-> 202402, value |-> Null] >>]

NoDoc == [exists |-> FALSE, series |-> <<>>]

\* qss/qss.json as fetch_qss writes it: revenue of a labelled and of an
\* unlabelled category, another data type, and an id without "_"
QssRaw ==
    [exists |-> TRUE, series |-> <<
       PpSeries(<<"2", "2", "1", "1", "T", "_", "Q", "E", "X", "P">>, <<"2211T QEXP">>, 0),
       PpSeries(<<"2", "2", "1", "1", "T", "_", "Q", "R", "E", "V">>, <<"2211T QREV">>, 1),
       PpSeries(<<"8", "1", "_", "2", "T", "_", "Q", "R", "E", "V">>, <<"81_2T QREV">>, 2),
       PpSeries(<<"T", "O", "T", "A", "L">>, <<"TOTAL">>, 3) >>]

\* wholesale/wholesale.json: sales, inventories, ratios, another data type
WholesaleRaw ==
    [exists |-> TRUE, series |-> <<
       PpSeries(<<"4", "2", "_", "I", "R">>, <<"42 IR">>, 0),
       PpSeries(<<"4", "2", "3", "1", "_", "E", "I">>, <<"4231 EI">>, 1),
       PpSeries(<<"4", "2", "3", "1", "_", "S", "M">>, <<"4231 SM">>, 2),
       PpSeries(<<"4", "2", "4", "_", "I", "M">>, <<"424 IM">>, 3),
       PpSeries(<<"4", "2", "4", "_", "S", "I">>, <<"424 SI">>, 4),
       PpSeries(<<"4", "2", "4", "_", "S", "M">>, <<"424 SM">>, 5),
       PpSeries(<<"4", "2", "4", "_", "M", "P", "C", "S", "M">>, <<"424 MPCSM">>, 6) >>]

\* wholesale/wholesale.json with sales only
WholesaleSalesOnly ==
    [exists |-> TRUE, series |-> <<
       PpSeries(<<"4", "2", "3", "1", "_", "S", "M">>, <<"4231 SM">>, 0),
       PpSeries(<<"4", "2", "4", "_", "S", "M">>, <<"424 SM">>, 1) >>]

\* ces/employees.json: series in and out of CES60*, in and out of target_ids
EmployeesRaw ==
    [exists |-> TRUE, series |-> <<
       PpSeries(<<"C", "E", "S", "0", "0", "0", "0", "0", "0", "0", "0", "0", "1">>,
                <<"Total nonfarm">>, 0),
       PpSeries(<<"C", "E", "S", "5", "0", "5", "1", "3", "2", "0", "0", "0", "1">>,
                <<"Software publishers">>, 1),
       PpSeries(<<"C", "E", "S", "6", "0", "5", "4", "1", "5", "0", "0", "0", "1">>,
                <<"Computer systems design">>, 2),
       PpSeries(<<"C", "E", "S", "6", "0", "5", "6", "0", "0", "0", "0", "0", "1">>,
                <<"Administrative and support">>, 3) >>]

\* A derived document left by an earlier run over other inputs
StaleDoc == [exists |-> TRUE, series |-> << PpSeries(<<"O", "L", "D">>, <<"old">>, 0) >>]

\* The documents post_process derives (qss/qss.json is rewritten in place)
DerivedFiles == { "qss/qss.json", "wholesale/wholesale_sales.json",
                  "wholesale/wholesale_inventory.json", "wholesale/wholesale_ratio.json",
                  "ces/employees_pbs.json", "analysis/ai_employment.json" }

PostFiles == DerivedFiles \cup { "wholesale/wholesale.json", "ces/employees.json",
                                 "config/release_calendar.json",
                                 "calendar/release_calendar.json" }

\* Every input absent or present, the derived documents absent or stale
PostTrees ==
    { [f \in PostFiles |->
          IF f = "qss/qss.json" THEN q
          ELSE IF f = "wholesale/wholesale.json" THEN w
          ELSE IF f = "ces/employees.json" THEN e
          ELSE IF f = "config/release_calendar.json" THEN c
          ELSE old]
        : q \in {NoDoc, QssRaw}, w \in {NoDoc, WholesaleRaw, WholesaleSalesOnly},
          e \in {NoDoc, EmployeesRaw}, c \in {NoDoc, [exists |-> TRUE, series |-> <<>>]},
          old \in {NoDoc, StaleDoc} }

(***************************************************************************)
(* Actions: one fetcher run each, from its rows to its documents           *)
(***************************************************************************)

BuildIdle == fb_fetcher = "none" /\ fb_input = <<>> /\ fb_docs = <<>>

\* fetch_m3.run
FbM3 ==
    /\ fb_fetcher = "none"
    /\ \E rows \in SeqsOf(M3Rows, MaxRows) \cup M3Examples :
         /\ fb_fetcher' = "m3" /\ fb_input' = rows /\ fb_docs' = M3Run(rows)

\* fetch_qss.run
FbQss ==
    /\ fb_fetcher = "none"
    /\ \E rows \in SeqsOf(QssRows, MaxRows) :
         /\ fb_fetcher' = "qss" /\ fb_input' = rows /\ fb_docs' = QssRun(rows)

\* fetch_ces.run
FbCes ==
    /\ fb_fetcher = "none"
    /\ \E rows \in SeqsOf(CesRows, MaxRows) :
         /\ fb_fetcher' = "ces" /\ fb_input' = rows /\ fb_docs' = CesRun(rows)

\* fetch_nipa.run, one table
FbNipa ==
    /\ fb_fetcher = "none"
    /\ \E rows \in SeqsOf(NipaRows, MaxRows) \cup NipaExamples :
         /\ fb_fetcher' = "nipa" /\ fb_input' = rows /\ fb_docs' = NipaRun(rows)

\* fetch_fred.run
FbFred ==
    /\ fb_fetcher = "none"
    /\ \E responses \in FredResponses :
         /\ fb_fetcher' = "fred" /\ fb_input' = responses /\ fb_docs' = FredRun(responses)

\* fetch_unemployment.run
FbUnemployment ==
    /\ fb_fetcher = "none"
    /\ \E responses \in UnempResponseLists :
         /\ fb_fetcher' = "unemployment" /\ fb_input' = responses
         /\ fb_docs' = UnempRun(responses)

\* fetch_construction.run
FbConstruction ==
    /\ fb_fetcher = "none"
    /\ \E sheet \in Sheets :
         /\ fb_fetcher' = "construction" /\ fb_input' = sheet
         /\ fb_docs' = ConstructionRun(sheet)

\* fetch_fed_surveys.run
FbFedSurveys ==
    /\ fb_fetcher = "none"
    /\ \E responses \in FedResponses :
         /\ fb_fetcher' = "fed_surveys" /\ fb_input' = responses
         /\ fb_docs' = FedRun(responses)

\* post_process.run, over what the fetchers left
FbPostProcess ==
    /\ fb_fetcher = "none"
    /\ \E tree \in PostTrees :
         /\ fb_fetcher' = "post_process" /\ fb_input' = tree
         /\ fb_docs' = PostRun(tree, 1)

BuildNext == FbM3 \/ FbQss \/ FbCes \/ FbNipa \/ FbFred \/ FbUnemployment
             \/ FbConstruction \/ FbFedSurveys \/ FbPostProcess

(***************************************************************************)
(* Actions of post_process.run: one per sub-step called, then the return,  *)
(* and the next run started right after the first                          *)
(***************************************************************************)

\* The file a sub-step reads
InputOf(step) ==
    IF step = "process_qss" THEN "qss/qss.json"
    ELSE IF step = "process_wholesale" THEN "wholesale/wholesale.json"
    ELSE IF step \in {"process_ces_pbs", "process_analysis"} THEN "ces/employees.json"
    ELSE "config/release_calendar.json"

PostIdle ==
    /\ pp_tree = <<>> /\ pp_pc = "idle" /\ pp_step = 0 /\ pp_run = 0
    /\ pp_log = <<>> /\ pp_first = <<>>

PostInit ==
    /\ pp_tree \in PostTrees
    /\ pp_pc = "calls" /\ pp_step = 1 /\ pp_run = 1
    /\ pp_log = <<>> /\ pp_first = pp_tree

\* lines 210-214: the call of sub-step k; an exception leaves run
PpCall(k) ==
    /\ pp_pc = "calls" /\ pp_step = k
    /\ LET r == PostStep(PostSteps[k], pp_tree)
       IN  /\ pp_tree' = r.tree
           /\ pp_log' = Append(pp_log,
                  [run |-> pp_run, step |-> PostSteps[k],
                   absent |-> ~pp_tree[InputOf(PostSteps[k])].exists,
                   saved |-> { r.saved[n].file : n \in 1..Len(r.saved) },
                   changed |-> { f \in DOMAIN pp_tree : r.tree[f] # pp_tree[f] },
                   raised |-> r.raised])
           /\ pp_pc' = IF r.raised THEN "raised" ELSE "calls"
           /\ pp_step' = IF r.raised THEN k ELSE k + 1
    /\ UNCHANGED <<pp_run, pp_first>>

\* line 215: run returns
PpReturn ==
    /\ pp_pc = "calls" /\ pp_step > Len(PostSteps)
    /\ pp_pc' = "returned"
    /\ pp_first' = IF pp_run = 1 THEN pp_tree ELSE pp_first
    /\ UNCHANGED <<pp_tree, pp_step, pp_run, pp_log>>

\* run is called again, the fetcher outputs unchanged
PpRunAgain ==
    /\ pp_pc = "returned" /\ pp_run = 1
    /\ pp_pc' = "calls" /\ pp_step' = 1 /\ pp_run' = 2
    /\ UNCHANGED <<pp_tree, pp_log, pp_first>>

PostNext == (\E k \in 1..Len(PostSteps) : PpCall(k)) \/ PpReturn \/ PpRunAgain

(***************************************************************************)
(* Inputs of the orchestrators                                             *)
(***************************************************************************)

Today    == "2026-11-02"
Tomorrow == "2026-11-03"
Dates    == {Today, Tomorrow}

\* Release-date lists as fetch_calendar writes them (scrape_bea, scrape_census
\* and scrape_fred_ip sort theirs; "today in dates" does not depend on order).
DateLists == { <<Today>>, <<Today, Tomorrow>> }
ShortDateLists == { <<>>, <<Today>>, <<Tomorrow>> }

\* The keys fetch_calendar.run writes, in the order it writes them.
CalKeys == << "bls", "bea", "census_m3", "census_construction",
              "census_wholesale", "census_qss", "fred_ip" >>

\* A key run_scheduled does not know; a calendar may carry it (DOMAIN test).
UnknownKey == "census_retail"

\* Calendars: the seven keys with independent lists, and short calendars
\* that also carry an unknown key and empty lists (a failed scrape).
Schedules ==
    { [k \in 1..Len(CalKeys) |-> [key |-> CalKeys[k], dates |-> f[k]]]
        : f \in [1..Len(CalKeys) -> DateLists] }
    \cup
    { <<[key |-> UnknownKey, dates |-> <<Today>>]>>
        \o [k \in 1..2 |-> [key |-> CalKeys[k], dates |-> f[k]]]
        : f \in [1..2 -> ShortDateLists] }

NoCalendar == [exists |-> FALSE, schedules |-> <<>>]

CalendarFiles ==
    {NoCalendar} \cup { [exists |-> TRUE, schedules |-> s] : s \in Schedules }

\* Eastern wall-clock times around every fetch threshold (8:35, 9:20, 10:05).
ClockTimes == { <<8, 29>>, <<8, 34>>, <<8, 35>>, <<9, 19>>, <<9, 20>>,
                <<10, 4>>, <<10, 5>>, <<11, 0>> }

Clocks == { [date |-> d, hour |-> t[1], minute |-> t[2]]
              : d \in Dates, t \in ClockTimes }

(***************************************************************************)
(* Actions of the orchestrators                                            *)
(***************************************************************************)

OrchIdle ==
    /\ entry = "none" /\ calendar = NoCalendar
    /\ now_et = [date |-> Today, hour |-> 0, minute |-> 0]
    /\ pc = "idle" /\ fetchers = <<>> /\ skipped = <<>> /\ idx = 0
    /\ errors = <<>> /\ calls = <<>> /\ success = "unset" /\ exit_code = -1

RetryIdle ==
    /\ rr_pc = "idle" /\ attempt = 0 /\ rr_log = <<>> /\ rr_result = "none"

OrchInit ==
    /\ entry \in {"fetch_all", "run_scheduled"}
    /\ calendar \in CalendarFiles
    /\ now_et \in Clocks
    /\ entry = "fetch_all" => (calendar = NoCalendar /\ now_et.date = Today
                                /\ now_et.hour = 11)
    /\ pc = IF entry = "fetch_all" THEN "fa_run" ELSE "rs_run"
    /\ fetchers = <<>> /\ skipped = <<>> /\ idx = 0
    /\ errors = <<>> /\ calls = <<>> /\ success = "unset" /\ exit_code = -1

BoolStr(b) == IF b THEN "True" ELSE "False"

\* fetch_all.run, lines 23-40: build the step list, errors = []
FaBegin ==
    /\ pc = "fa_run"
    /\ pc' = "fa_loop" /\ idx' = 0 /\ errors' = <<>>
    /\ UNCHANGED <<entry, calendar, now_et, fetchers, skipped, calls, success, exit_code>>

\* Mutant of FaRunStep: no try/except, a raising step ends the loop.
FaRunStep_AbortOnRaise ==
    /\ pc = "fa_loop" /\ idx < Len(steps)
    /\ \E outcome \in StepOutcomes :
         /\ calls'  = Append(calls, [func |-> steps[idx + 1].func, outcome |-> outcome])
         /\ errors' = ErrorsAfter(errors, steps[idx + 1].name, outcome)
         /\ idx' = IF outcome = "raised" THEN Len(steps) ELSE idx + 1
    /\ UNCHANGED <<entry, calendar, now_et, pc, fetchers, skipped, success, exit_code>>

\* fetch_all.run, lines 42-54: one iteration of "for name, func in steps"
FaRunStep ==
    /\ pc = "fa_loop" /\ idx < Len(steps)
    /\ \E outcome \in StepOutcomes :
         /\ calls'  = Append(calls, [func |-> steps[idx + 1].func, outcome |-> outcome])
         /\ errors' = ErrorsAfter(errors, steps[idx + 1].name, outcome)
    /\ idx' = idx + 1
    /\ UNCHANGED <<entry, calendar, now_et, pc, fetchers, skipped, success, exit_code>>

\* fetch_all.run, lines 56-65: the loop is over; return len(errors) == 0
FaReturn ==
    /\ pc = "fa_loop" /\ idx = Len(steps)
    /\ success' = BoolStr(RunResult(errors))
    /\ pc' = "main_exit"
    /\ UNCHANGED <<entry, calendar, now_et, fetchers, skipped, idx, errors, calls, exit_code>>

\* run_scheduled.run, lines 126-130: no calendar, fall back to fetch_all.run()
RsFallback ==
    /\ pc = "rs_run"
    /\ ~load_calendar(calendar).exists
    /\ pc' = "fa_run"
    /\ UNCHANGED <<entry, calendar, now_et, fetchers, skipped, idx, errors, calls, success, exit_code>>

\* run_scheduled.run, lines 132-162: nothing ready, return True
RsNothingReady ==
    /\ pc = "rs_run"
    /\ load_calendar(calendar).exists
    /\ LET r == get_ready_fetchers(load_calendar(calendar).schedules, now_et)
       IN  /\ Len(r.fetchers) = 0
           /\ fetchers' = r.fetchers /\ skipped' = r.skipped
    /\ success' = BoolStr(TRUE)
    /\ pc' = "main_exit"
    /\ UNCHANGED <<entry, calendar, now_et, idx, errors, calls, exit_code>>

\* run_scheduled.run, lines 132-169: some fetcher is ready, errors = []
RsBegin ==
    /\ pc = "rs_run"
    /\ load_calendar(calendar).exists
    /\ LET r == get_ready_fetchers(load_calendar(calendar).schedules, now_et)
       IN  /\ Len(r.fetchers) > 0
           /\ fetchers' = r.fetchers /\ skipped' = r.skipped
    /\ pc' = "rs_loop" /\ idx' = 0 /\ errors' = <<>>
    /\ UNCHANGED <<entry, calendar, now_et, calls, success, exit_code>>

\* run_scheduled.run, lines 171-183: one iteration of "for name, func in fetchers"
RsRunFetcher ==
    /\ pc = "rs_loop" /\ idx < Len(fetchers)
    /\ \E outcome \in StepOutcomes :
         /\ calls'  = Append(calls, [func |-> fetchers[idx + 1].func, outcome |-> outcome])
         /\ errors' = ErrorsAfter(errors, fetchers[idx + 1].name, outcome)
    /\ idx' = idx + 1
    /\ UNCHANGED <<entry, calendar, now_et, pc, fetchers, skipped, success, exit_code>>

\* Mutant of RsPostProcess: post-processing is skipped after a fetcher error.
RsPostProcess_SkipOnError ==
    /\ pc = "rs_loop" /\ idx = Len(fetchers)
    /\ IF errors # <<>>
       THEN UNCHANGED <<calls, errors>>
       ELSE \E outcome \in StepOutcomes :
              /\ calls'  = Append(calls, [func |-> "post_process.run", outcome |-> outcome])
              /\ errors' = ErrorsAfter(errors, "Post-processing", outcome)
    /\ pc' = "rs_return"
    /\ UNCHANGED <<entry, calendar, now_et, fetchers, skipped, idx, success, exit_code>>

\* run_scheduled.run, lines 185-193: post_process.run() inside its own try
RsPostProcess ==
    /\ pc = "rs_loop" /\ idx = Len(fetchers)
    /\ \E outcome \in StepOutcomes :
         /\ calls'  = Append(calls, [func |-> "post_process.run", outcome |-> outcome])
         /\ errors' = ErrorsAfter(errors, "Post-processing", outcome)
    /\ pc' = "rs_return"
    /\ UNCHANGED <<entry, calendar, now_et, fetchers, skipped, idx, success, exit_code>>

\* run_scheduled.run, lines 195-204: return len(errors) == 0
RsReturn ==
    /\ pc = "rs_return"
    /\ success' = BoolStr(RunResult(errors))
    /\ pc' = "main_exit"
    /\ UNCHANGED <<entry, calendar, now_et, fetchers, skipped, idx, errors, calls, exit_code>>

\* if __name__ == "__main__": success = run(); sys.exit(0 if success else 1)
MainExit ==
    /\ pc = "main_exit"
    /\ exit_code' = ExitCodeOf(success = "True")
    /\ pc' = "exited"
    /\ UNCHANGED <<entry, calendar, now_et, fetchers, skipped, idx, errors, calls, success>>

OrchNext ==
    \/ FaBegin \/ FaRunStep \/ FaReturn
    \/ RsFallback \/ RsNothingReady \/ RsBegin \/ RsRunFetcher \/ RsPostProcess \/ RsReturn
    \/ MainExit

(***************************************************************************)
(* The request loops of fetch_m3.run, fetch_qss.run, fetch_fred.run and    *)
(* fetch_nipa.run, as the orchestrator fetch_all.run calls them            *)
(***************************************************************************)

\* The loops run over range(2015, 2027), IP_SERIES and NIPA_TABLES; the model
\* takes the first MaxRequests iterations of each.
MaxRequests == 3

\* What the GETs of one retry_request call would do, attempt by attempt: the
\* first succeeds, the second succeeds, none succeeds.
AttemptOutcomes ==
    { <<"ok", "ok", "ok">>,
      <<"timeout", "ok", "ok">>,
      <<"http_5xx", "connection_error", "timeout">> }

\* resp.json() of a successful response: at least a header and a row (an
\* observation list of two or more, a non-empty Data list), or less.
Bodies == {"rows", "empty"}

\* utils.retry_request as one call: the events of attempts a, a+1, ... and how
\* the call ends ("returned", or the exception that leaves it).
RECURSIVE retry_request(_, _)
retry_request(outs, a) ==
    IF a >= max_retries \/ a >= Len(outs) THEN [log |-> <<>>, result |-> "none"]
    ELSE LET outcome == outs[a + 1]
         IN  IF outcome = "ok"
             THEN [log |-> <<GetEvent("ok")>>, result |-> "returned"]
             ELSE IF Caught(outcome) /\ RetryAgain(a)
             THEN LET rest == retry_request(outs, a + 1)
                  IN  [log    |-> <<GetEvent(outcome), SleepEvent(Backoff(a))>> \o rest.log,
                       result |-> rest.result]
             ELSE [log |-> <<GetEvent(outcome)>>, result |-> outcome]

\* time.sleep(0.5) in fetch_m3.run and fetch_qss.run, time.sleep(0.6) in
\* fetch_fred.run, time.sleep(8) in fetch_nipa.run, in milliseconds.
RateSleepMs == [m3 |-> 500, qss |-> 500, fred |-> 600, nipa |-> 8000]

RunSleep(fetcher) == [op |-> "sleep", outcome |-> "-", ms |-> RateSleepMs[fetcher]]

\* The step of fetch_all.run that calls each fetcher.
StepFunc == [m3   |-> "fetch_m3.run",   qss  |-> "fetch_qss.run",
             fred |-> "fetch_fred.run", nipa |-> "fetch_nipa.run"]

StepName(fetcher) ==
    steps[CHOOSE k \in 1..Len(steps) : steps[k].func = StepFunc[fetcher]].name

\* Mutant of OnError: no fetcher catches the exception of retry_request.
OnError_AllRaise(fetcher) == "raise"

\* What each run() does with an exception that leaves retry_request:
\*   fetch_m3.run (195-196) and fetch_qss.run (51-52): except Exception: print,
\*     then the time.sleep(0.5) after the try statement;
\*   fetch_fred.run (328-331): except Exception: print, errors.append, continue;
\*   fetch_nipa.run (221): fetch_table is called outside any try.
OnError(fetcher) ==
    CASE fetcher \in {"m3", "qss"} -> "sleep"
      [] fetcher = "fred"          -> "continue"
      [] OTHER                     -> "raise"

\* Mutant of NoDataFetched: the output is built and written in any case.
NoDataFetched_Never(rows) == FALSE

\* fetch_m3.run line 199, fetch_qss.run line 55: if not all_rows or not headers.
\* headers is set with the first rows received, so the two tests agree.
NoDataFetched(rows) == ~rows

FlIdle ==
    /\ fl_fetcher = "none" /\ fl_pc = "idle" /\ fl_result = "none" /\ fl_i = 0
    /\ fl_log = <<>> /\ fl_got = <<>> /\ fl_rows = FALSE
    /\ fl_before = "absent" /\ fl_file = "absent"
    /\ fl_errors = <<>> /\ fl_success = "none"

\* fetch_all.run reaches the step of one of the four fetchers; its output file
\* is absent or left by an earlier run.
FlInit ==
    /\ fl_fetcher \in DOMAIN StepFunc
    /\ fl_before \in {"absent", "previous"} /\ fl_file = fl_before
    /\ fl_pc = "loop" /\ fl_result = "none" /\ fl_i = 0
    /\ fl_log = <<>> /\ fl_got = <<>> /\ fl_rows = FALSE
    /\ fl_errors = <<>> /\ fl_success = "none"

\* fetch_m3.run lines 184-197, fetch_qss.run lines 40-53: one year
FlCensusYear ==
    /\ fl_pc = "loop" /\ fl_fetcher \in {"m3", "qss"} /\ fl_i < MaxRequests
    /\ \E outs \in AttemptOutcomes, body \in Bodies :
         LET r      == retry_request(outs, 0)
             failed == r.result # "returned"
             got    == IF failed THEN "error" ELSE body
         IN  /\ fl_got' = Append(fl_got, got)
             /\ fl_rows' = (fl_rows \/ got = "rows")
             /\ IF failed /\ OnError(fl_fetcher) = "raise"
                THEN fl_log' = fl_log \o r.log /\ fl_pc' = "done" /\ fl_result' = "raised"
                ELSE /\ fl_log' = (fl_log \o r.log) \o
                                  (IF failed /\ OnError(fl_fetcher) = "continue"
                                   THEN <<>> ELSE <<RunSleep(fl_fetcher)>>)
                     /\ UNCHANGED <<fl_pc, fl_result>>
    /\ fl_i' = fl_i + 1
    /\ UNCHANGED <<fl_fetcher, fl_before, fl_file, fl_errors, fl_success>>

\* fetch_m3.run lines 199-270, fetch_qss.run lines 55-124: after the loop
FlCensusReturn ==
    /\ fl_pc = "loop" /\ fl_fetcher \in {"m3", "qss"} /\ fl_i = MaxRequests
    /\ fl_file' = IF NoDataFetched(fl_rows) THEN fl_file ELSE "written"
    /\ fl_pc' = "done" /\ fl_result' = "returned"
    /\ UNCHANGED <<fl_fetcher, fl_before, fl_i, fl_log, fl_got, fl_rows,
                   fl_errors, fl_success>>

\* fetch_fred.run lines 324-343: one series
FlFredSeries ==
    /\ fl_pc = "loop" /\ fl_fetcher = "fred" /\ fl_i < MaxRequests
    /\ \E outs \in AttemptOutcomes, body \in Bodies :
         LET r      == retry_request(outs, 0)
             failed == r.result # "returned"
             got    == IF failed THEN "error" ELSE body
         IN  /\ fl_got' = Append(fl_got, got)
             /\ fl_rows' = (fl_rows \/ got = "rows")
             /\ IF failed /\ OnError(fl_fetcher) = "raise"
                THEN fl_log' = fl_log \o r.log /\ fl_pc' = "done" /\ fl_result' = "raised"
                ELSE /\ fl_log' = (fl_log \o r.log) \o
                                  (IF failed /\ OnError(fl_fetcher) = "continue"
                                   THEN <<>> ELSE <<RunSleep(fl_fetcher)>>)
                     /\ UNCHANGED <<fl_pc, fl_result>>
    /\ fl_i' = fl_i + 1
    /\ UNCHANGED <<fl_fetcher, fl_before, fl_file, fl_errors, fl_success>>

\* fetch_fred.run lines 345-359: the document is written whatever was fetched
FlFredReturn ==
    /\ fl_pc = "loop" /\ fl_fetcher = "fred" /\ fl_i = MaxRequests
    /\ fl_file' = "written"
    /\ fl_pc' = "done" /\ fl_result' = "returned"
    /\ UNCHANGED <<fl_fetcher, fl_before, fl_i, fl_log, fl_got, fl_rows,
                   fl_errors, fl_success>>

\* fetch_nipa.run lines 220-227: one table; a table with series is written
FlNipaTable ==
    /\ fl_pc = "loop" /\ fl_fetcher = "nipa" /\ fl_i < MaxRequests
    /\ \E outs \in AttemptOutcomes, body \in Bodies :
         LET r      == retry_request(outs, 0)
             failed == r.result # "returned"
             got    == IF failed THEN "error" ELSE body
         IN  /\ fl_got' = Append(fl_got, got)
             /\ fl_rows' = (fl_rows \/ got = "rows")
             /\ fl_file' = IF got = "rows" THEN "written" ELSE fl_file
             /\ IF failed /\ OnError(fl_fetcher) = "raise"
                THEN fl_log' = fl_log \o r.log /\ fl_pc' = "done" /\ fl_result' = "raised"
                ELSE /\ fl_log' = (fl_log \o r.log) \o
                                  (IF failed /\ OnError(fl_fetcher) = "continue"
                                   THEN <<>> ELSE <<RunSleep(fl_fetcher)>>)
                     /\ UNCHANGED <<fl_pc, fl_result>>
    /\ fl_i' = fl_i + 1
    /\ UNCHANGED <<fl_fetcher, fl_before, fl_errors, fl_success>>

\* fetch_nipa.run: the loop over NIPA_TABLES is over
FlNipaReturn ==
    /\ fl_pc = "loop" /\ fl_fetcher = "nipa" /\ fl_i = MaxRequests
    /\ fl_pc' = "done" /\ fl_result' = "returned"
    /\ UNCHANGED <<fl_fetcher, fl_before, fl_file, fl_i, fl_log, fl_got, fl_rows,
                   fl_errors, fl_success>>

\* fetch_all.run lines 42-65: try: func() / except Exception: errors.append,
\* then return len(errors) == 0, the other steps having returned normally
FlRecord ==
    /\ fl_pc = "done"
    /\ fl_errors' = ErrorsAfter(<<>>, StepName(fl_fetcher), fl_result)
    /\ fl_success' = BoolStr(RunResult(fl_errors'))
    /\ fl_pc' = "recorded"
    /\ UNCHANGED <<fl_fetcher, fl_before, fl_file, fl_result, fl_i, fl_log, fl_got,
                   fl_rows>>

LoopNext ==
    \/ FlCensusYear \/ FlCensusReturn
    \/ FlFredSeries \/ FlFredReturn
    \/ FlNipaTable  \/ FlNipaReturn
    \/ FlRecord

(***************************************************************************)
(* fetch_calendar.py                                                       *)
(***************************************************************************)

\* The ISO dates of the model in ascending order; for "%Y-%m-%d" strings the
\* order of str, which sorted() and >= use, is the order of the dates.  cutoff
\* is the one scrape_fred_ip computes on the day of the run (lines 200-201):
\* the same day of the month before 2026-11-02.
LastMonth     == "2026-09-15"
cutoff        == "2026-10-02"
CalendarDates == <<LastMonth, cutoff, "2026-10-20", Today, Tomorrow>>

DatePos(d) == CHOOSE k \in 1..Len(CalendarDates) : CalendarDates[k] = d

\* sorted(dates): insertion into an ascending list, duplicates kept
RECURSIVE SortDates(_)
SortDates(dates) ==
    IF dates = <<>> THEN <<>>
    ELSE LET rest   == SortDates(Tail(dates))
             d      == Head(dates)
             before == SelectSeq(rest, LAMBDA x : DatePos(x) < DatePos(d))
             after  == SelectSeq(rest, LAMBDA x : DatePos(x) >= DatePos(d))
         IN  before \o <<d>> \o after

\* sorted(set(dates))
SortedSet(dates) == SelectSeq(CalendarDates, LAMBDA d : InList(d, dates))

\* datetime.strptime(text, fmt).strftime('%Y-%m-%d') on the date texts of the
\* model; a text that is in no row under fmt raises ValueError.
DateTexts ==
    { [text |-> "Nov. 02, 2026",     fmt |-> "%b. %d, %Y", iso |-> Today],
      [text |-> "November 03, 2026", fmt |-> "%B %d, %Y",  iso |-> Tomorrow],
      [text |-> "October 20, 2026",  fmt |-> "%B %d, %Y",  iso |-> "2026-10-20"] }

Parses(text, fmt) == \E t \in DateTexts : t.text = text /\ t.fmt = fmt

strptime(text, fmt) == (CHOOSE t \in DateTexts : t.text = text /\ t.fmt = fmt).iso

\* lines 54-60 and 156-160: the first format that parses the text gives the
\* date; a text no format parses gives nothing
RECURSIVE ParseDates(_, _)
ParseDates(texts, fmts) ==
    IF texts = <<>> THEN <<>>
    ELSE LET ok == SelectSeq(fmts, LAMBDA f : Parses(Head(texts), f))
         IN  (IF ok = <<>> THEN <<>> ELSE <<strptime(Head(texts), Head(ok))>>)
                 \o ParseDates(Tail(texts), fmts)

\* What a scraper's request and parse can come to: retry_request raised
\* ("error"), the page lacks the table looked for ("no_table"), or rows.
FailedPage  == [status |-> "error",    rows |-> <<>>]
NoTablePage == [status |-> "no_table", rows |-> <<>>]
Page(rows)  == [status |-> "ok",       rows |-> rows]

\* scrape_bls: the second cell of each row of table.release-list, in page
\* order; any exception gives []
scrape_bls(page) ==
    IF page.status # "ok" THEN <<>>
    ELSE ParseDates(page.rows, <<"%b. %d, %Y", "%B %d, %Y">>)

\* scrape_bea: the release_dates of the relevant releases, as a sorted set.
\* A row is [relevant, dates]: relevant is the test of line 88 on the release
\* name, dates the "%Y-%m-%d" of each release date fromisoformat accepts.
RECURSIVE BeaDates(_)
BeaDates(rows) ==
    IF rows = <<>> THEN <<>>
    ELSE (IF Head(rows).relevant THEN Head(rows).dates ELSE <<>>) \o BeaDates(Tail(rows))

scrape_bea(page) ==
    IF page.status # "ok" THEN <<>> ELSE SortedSet(BeaDates(page.rows))

\* scrape_census, lines 143-150, on the indicator texts of the model: the
\* dataset key of the first pattern of indicator_map contained in the text,
\* an "advance" row of census_m3 being passed over; "" when none matches.
M3Full    == "Manufacturers' Shipments, Inventories and Orders (Full Report)"
M3Advance == "Advance Report on Manufacturers' Shipments, Inventories and Orders"

matched_key ==
    (M3Full                      :> "census_m3") @@
    (M3Advance                   :> "") @@
    ("Construction Spending"     :> "census_construction") @@
    ("Monthly Wholesale Trade"   :> "census_wholesale") @@
    ("Quarterly Services Survey" :> "census_qss") @@
    ("New Residential Sales"     :> "")

CensusKeys == <<"census_m3", "census_construction", "census_wholesale", "census_qss">>

\* scrape_census: per dataset key the sorted set of the dates of its rows; a
\* failed request or a page without table#calendar leaves every list empty
scrape_census(page) ==
    [ k \in 1..Len(CensusKeys) |->
        [key   |-> CensusKeys[k],
         dates |-> IF page.status # "ok" THEN <<>>
                   ELSE SortedSet(ParseDates(
                          [j \in 1..Len(SelectSeq(page.rows,
                                 LAMBDA r : matched_key[r.indicator] = CensusKeys[k])) |->
                             SelectSeq(page.rows,
                                 LAMBDA r : matched_key[r.indicator] = CensusKeys[k])[j].date],
                          <<"%B %d, %Y">>))] ]

\* scrape_fred_ip: the non-empty "date" fields not before the cutoff, sorted
scrape_fred_ip(page) ==
    IF page.status # "ok" THEN <<>>
    ELSE SortDates(SelectSeq(SelectSeq(page.rows, LAMBDA d : d # ""),
                             LAMBDA d : DatePos(d) >= DatePos(cutoff)))

\* calendar["schedules"][key] = dates
RECURSIVE SetKey(_, _, _)
SetKey(schedules, key, dates) ==
    IF schedules = <<>> THEN <<[key |-> key, dates |-> dates]>>
    ELSE IF Head(schedules).key = key
         THEN <<[key |-> key, dates |-> dates]>> \o Tail(schedules)
         ELSE <<Head(schedules)>> \o SetKey(Tail(schedules), key, dates)

\* calendar["schedules"].update(census)
RECURSIVE Update(_, _)
Update(schedules, other) ==
    IF other = <<>> THEN schedules
    ELSE Update(SetKey(schedules, Head(other).key, Head(other).dates), Tail(other))

\* The dates a calendar file holds under a key, [] when it has none.
RECURSIVE DatesUnder(_, _)
DatesUnder(schedules, key) ==
    IF schedules = <<>> THEN <<>>
    ELSE IF Head(schedules).key = key THEN Head(schedules).dates
         ELSE DatesUnder(Tail(schedules), key)

\* Mutant of Dump: the new lists are added to those of the file.
Dump_Merge(file, schedules) ==
    [exists    |-> TRUE,
     schedules |-> [k \in 1..Len(schedules) |->
                      [key   |-> schedules[k].key,
                       dates |-> DatesUnder(file.schedules, schedules[k].key)
                                    \o schedules[k].dates]]]

\* lines 236-238: open(OUTPUT_PATH, 'w') truncates the file, json.dump writes
\* the calendar built by this run
Dump(file, schedules) == [exists |-> TRUE, schedules |-> schedules]

\* ---- inputs ----

BlsPages ==
    { FailedPage, NoTablePage, Page(<<>>),
      Page(<<"Nov. 02, 2026">>),
      Page(<<"November 03, 2026", "TBD", "Nov. 02, 2026", "Nov. 02, 2026">>) }

BeaPages ==
    { FailedPage, Page(<<>>),
      Page(<<[relevant |-> TRUE,  dates |-> <<Tomorrow, Today, Today>>],
             [relevant |-> FALSE, dates |-> <<"2026-10-20">>]>>),
      Page(<<[relevant |-> TRUE,  dates |-> <<"2026-10-20">>]>>) }

CensusPages ==
    { FailedPage, NoTablePage,
      Page(<<[indicator |-> M3Full, date |-> "November 03, 2026"],
             [indicator |-> M3Advance, date |-> "October 20, 2026"],
             [indicator |-> "Construction Spending", date |-> "November 03, 2026"],
             [indicator |-> "Construction Spending", date |-> "October 20, 2026"],
             [indicator |-> "New Residential Sales", date |-> "November 03, 2026"],
             [indicator |-> "Quarterly Services Survey", date |-> "Nov. 02, 2026"]>>),
      Page(<<[indicator |-> "Monthly Wholesale Trade", date |-> "October 20, 2026"],
             [indicator |-> "Monthly Wholesale Trade", date |-> "October 20, 2026"],
             [indicator |-> "Quarterly Services Survey", date |-> "November 03, 2026"]>>) }

FredPages ==
    { FailedPage, Page(<<>>),
      Page(<<Tomorrow, "", LastMonth, "2026-10-20">>),
      Page(<<Today, Today>>) }

\* The calendar file before the run: none, one an earlier run wrote, one that
\* also carries a key this version does not write.
OldSchedules ==
    [k \in 1..Len(CalKeys) |-> [key |-> CalKeys[k], dates |-> <<LastMonth, Today>>]]

OldCalendars ==
    { NoCalendar,
      [exists |-> TRUE, schedules |-> OldSchedules],
      [exists |-> TRUE,
       schedules |-> <<[key |-> UnknownKey, dates |-> <<LastMonth>>]>> \o OldSchedules] }

\* ---- actions ----

CalIdle ==
    /\ cal_file = NoCalendar /\ cal_before = NoCalendar /\ cal_pc = "idle"
    /\ cal_dict = <<>> /\ cal_pages = <<>>

\* lines 211-217: calendar = {"last_updated": ..., "schedules": {}}
CalInit ==
    /\ cal_before \in OldCalendars /\ cal_file = cal_before
    /\ cal_pc = "bls" /\ cal_dict = <<>> /\ cal_pages = <<>>

\* lines 219-221
CalBls ==
    /\ cal_pc = "bls"
    /\ \E page \in BlsPages :
         /\ cal_dict' = SetKey(cal_dict, "bls", scrape_bls(page))
         /\ cal_pages' = Append(cal_pages, [source |-> "bls", page |-> page])
    /\ cal_pc' = "bea"
    /\ UNCHANGED <<cal_file, cal_before>>

\* lines 223-225
CalBea ==
    /\ cal_pc = "bea"
    /\ \E page \in BeaPages :
         /\ cal_dict' = SetKey(cal_dict, "bea", scrape_bea(page))
         /\ cal_pages' = Append(cal_pages, [source |-> "bea", page |-> page])
    /\ cal_pc' = "census"
    /\ UNCHANGED <<cal_file, cal_before>>

\* lines 227-229
CalCensus ==
    /\ cal_pc = "census"
    /\ \E page \in CensusPages :
         /\ cal_dict' = Update(cal_dict, scrape_census(page))
         /\ cal_pages' = Append(cal_pages, [source |-> "census", page |-> page])
    /\ cal_pc' = "fred_ip"
    /\ UNCHANGED <<cal_file, cal_before>>

\* lines 231-233
CalFred ==
    /\ cal_pc = "fred_ip"
    /\ \E page \in FredPages :
         /\ cal_dict' = SetKey(cal_dict, "fred_ip", scrape_fred_ip(page))
         /\ cal_pages' = Append(cal_pages, [source |-> "fred_ip", page |-> page])
    /\ cal_pc' = "write"
    /\ UNCHANGED <<cal_file, cal_before>>

\* lines 235-240
CalWrite ==
    /\ cal_pc = "write"
    /\ cal_file' = Dump(cal_file, cal_dict)
    /\ cal_pc' = "returned"
    /\ UNCHANGED <<cal_before, cal_dict, cal_pages>>

CalNext == CalBls \/ CalBea \/ CalCensus \/ CalFred \/ CalWrite

Init == OrchInit /\ RetryIdle /\ ResolveIdle /\ IndexIdle /\ BuildIdle /\ PostIdle /\ FlIdle /\ CalIdle
Next == OrchNext /\ UNCHANGED <<retryVars, resVars, indexVars, buildVars, postVars, loopVars, calVars>>
Spec == Init /\ [][Next]_vars

InitRetry == OrchIdle /\ RetryInit /\ ResolveIdle /\ IndexIdle /\ BuildIdle /\ PostIdle /\ FlIdle /\ CalIdle
NextRetry == RetryNext /\ UNCHANGED <<orchVars, resVars, indexVars, buildVars, postVars, loopVars, calVars>>
SpecRetry == InitRetry /\ [][NextRetry]_vars

InitResolve == OrchIdle /\ RetryIdle /\ ResolveIdle /\ IndexIdle /\ BuildIdle /\ PostIdle /\ FlIdle /\ CalIdle
NextResolve == ResolveNext /\ UNCHANGED <<orchVars, retryVars, indexVars, buildVars, postVars, loopVars, calVars>>
SpecResolve == InitResolve /\ [][NextResolve]_vars

InitIndex == OrchIdle /\ RetryIdle /\ ResolveIdle /\ IndexInit /\ BuildIdle /\ PostIdle /\ FlIdle /\ CalIdle
NextIndex == IndexNext /\ UNCHANGED <<orchVars, retryVars, resVars, buildVars, postVars, loopVars, calVars>>
SpecIndex == InitIndex /\ [][NextIndex]_vars

InitBuild == OrchIdle /\ RetryIdle /\ ResolveIdle /\ IndexIdle /\ BuildIdle /\ PostIdle /\ FlIdle /\ CalIdle
NextBuild == BuildNext /\ UNCHANGED <<orchVars, retryVars, resVars, indexVars, postVars, loopVars, calVars>>
SpecBuild == InitBuild /\ [][NextBuild]_vars

InitPost == OrchIdle /\ RetryIdle /\ ResolveIdle /\ IndexIdle /\ BuildIdle /\ PostInit /\ FlIdle /\ CalIdle
NextPost == PostNext /\ UNCHANGED <<orchVars, retryVars, resVars, indexVars, buildVars, loopVars, calVars>>
SpecPost == InitPost /\ [][NextPost]_vars

InitLoop == OrchIdle /\ RetryIdle /\ ResolveIdle /\ IndexIdle /\ BuildIdle /\ PostIdle /\ FlInit /\ CalIdle
NextLoop == LoopNext /\ UNCHANGED <<orchVars, retryVars, resVars, indexVars, buildVars, postVars, calVars>>
SpecLoop == InitLoop /\ [][NextLoop]_vars

InitCalendar == OrchIdle /\ RetryIdle /\ ResolveIdle /\ IndexIdle /\ BuildIdle /\ PostIdle /\ FlIdle /\ CalInit
NextCalendar == CalNext /\ UNCHANGED <<orchVars, retryVars, resVars, indexVars, buildVars, postVars, loopVars>>
SpecCalendar == InitCalendar /\ [][NextCalendar]_vars


(***************************************************************************)
(* Properties of the orchestrators                                         *)
(***************************************************************************)

\* fetch_all.run is (or was) running: started directly or as the fallback.
FetchAllRan == pc \in {"fa_loop", "main_exit", "exited"}
               /\ (entry = "fetch_all" \/ ~calendar.exists)

RunOver == pc \in {"main_exit", "exited"}

Raised == { k \in 1..Len(calls) : calls[k].outcome = "raised" }

\* C1: in fetch_all.run the functions invoked so far are exactly the first
\* idx steps of the declared list, each once and in declared order, whatever
\* their outcomes were; when run is over all of the steps have been invoked.
C1_AllStepsOnceInOrder ==
    FetchAllRan =>
        /\ Len(calls) = idx
        /\ Len(calls) <= Len(steps)
        /\ \A k \in 1..Len(calls) : calls[k].func = steps[k].func
        /\ RunOver => Len(calls) = Len(steps)

\* C1 witness: fetch_all.run is over, its first step raised, and the last
\* step (post-processing) was still invoked.
C1_Witness ==
    /\ FetchAllRan /\ pc = "exited"
    /\ calls[1].outcome = "raised"
    /\ calls[Len(steps)].func = "post_process.run"

\* C2: when run() has returned, the flag is True exactly when no invoked step
\* raised, the errors list has one element per step that raised, and the
\* exit code is 0 for True and 1 for False.
C2_SuccessFlagAndExitCode ==
    RunOver =>
        /\ success \in {"True", "False"}
        /\ (success = "True") <=> (Raised = {})
        /\ Len(errors) = Cardinality(Raised)
        /\ pc = "exited" => exit_code = (IF success = "True" THEN 0 ELSE 1)

\* C2 witness: a scheduled run with a calendar exits 1 after a fetcher raised.
C2_Witness ==
    /\ pc = "exited" /\ entry = "run_scheduled" /\ calendar.exists
    /\ Raised # {} /\ exit_code = 1 /\ Len(calls) >= 3

\* The calendar lists today for a key of FETCHER_MAP that owns func, and the
\* current Eastern time is at or after that key's release time.
ReleasedToday(func) ==
    \E k \in 1..Len(calendar.schedules) :
        LET key   == calendar.schedules[k].key
            dates == calendar.schedules[k].dates
        IN  /\ key \in DOMAIN FETCHER_MAP
            /\ \E j \in 1..Len(FETCHER_MAP[key].fetchers) :
                   FETCHER_MAP[key].fetchers[j].func = func
            /\ \E j \in 1..Len(dates) : dates[j] = now_et.date
            /\ \/ now_et.hour > FETCHER_MAP[key].release_time[1]
               \/ /\ now_et.hour = FETCHER_MAP[key].release_time[1]
                  /\ now_et.minute >= FETCHER_MAP[key].release_time[2]

InvokedFetchersReleased ==
    \A k \in 1..Len(calls) :
        calls[k].func # "post_process.run" => ReleasedToday(calls[k].func)

\* C5 as stated: in any run of run_scheduled.run, every fetcher invoked has a
\* release today whose release time has passed.
C5_Original == entry = "run_scheduled" => InvokedFetchersReleased

\* C5 amended: in a run of run_scheduled.run that loaded a calendar, every
\* fetcher invoked has a release today whose release time has passed.
C5_OnlyReleasedWithCalendar ==
    (entry = "run_scheduled" /\ calendar.exists) => InvokedFetchersReleased

\* C5 witness: a calendar run that invoked a fetcher while another source,
\* due today, was left waiting.
C5_Witness ==
    /\ entry = "run_scheduled" /\ calendar.exists /\ pc = "exited"
    /\ Len(calls) >= 2 /\ Len(skipped) >= 1

\* C6: with a calendar loaded, the invocations are the ready fetchers in
\* order followed by post_process.run, which is invoked once, last, and
\* whatever the fetchers' outcomes; with nothing ready nothing is invoked.
C6_PostProcessAfterFetchers ==
    (entry = "run_scheduled" /\ calendar.exists) =>
        /\ Len(calls) <= Len(fetchers) + 1
        /\ \A k \in 1..Len(calls) :
              IF k <= Len(fetchers)
              THEN calls[k].func = fetchers[k].func /\ calls[k].func # "post_process.run"
              ELSE calls[k].func = "post_process.run"
        /\ RunOver =>
              IF Len(fetchers) > 0 THEN Len(calls) = Len(fetchers) + 1
                                   ELSE calls = <<>>

\* C6 witness: a calendar run in which a fetcher raised and post-processing
\* was invoked after it.
C6_Witness ==
    /\ entry = "run_scheduled" /\ calendar.exists /\ RunOver
    /\ Len(fetchers) >= 2
    /\ calls[1].outcome = "raised"
    /\ calls[Len(calls)].func = "post_process.run"

\* C6 witness of the other case: something is waiting, nothing is ready.
C6_WitnessNothingReady ==
    /\ entry = "run_scheduled" /\ calendar.exists /\ RunOver
    /\ Len(fetchers) = 0 /\ Len(skipped) > 0 /\ calls = <<>>


(***************************************************************************)
(* Properties of retry_request                                             *)
(***************************************************************************)

NumGets == Cardinality({ i \in 1..Len(rr_log) : rr_log[i].op = "get" })

\* C3: with the default arguments the history of a call is a prefix of
\* get, sleep 2, get, sleep 4, get: at most 3 GETs, nothing after a
\* successful GET, a sleep of 2*k right after the k-th failed GET (k = 1, 2)
\* and before the next GET, and after a 3rd failed GET that GET's error is
\* raised with no sleep.
C3_AtMostThreeAttemptsLinearBackoff ==
    /\ NumGets <= 3
    /\ Len(rr_log) <= 5
    /\ \A i \in 1..Len(rr_log) :
          IF i % 2 = 1
          THEN /\ rr_log[i].op = "get"
               /\ (rr_log[i].outcome = "ok") => (i = Len(rr_log) /\ rr_result = "returned")
               /\ (rr_log[i].outcome # "ok" /\ i < 5) =>
                      (Len(rr_log) > i /\ rr_log[i + 1].op = "sleep")
          ELSE /\ rr_log[i].op = "sleep"
               /\ rr_log[i].secs = 2 * (i \div 2)
               /\ rr_log[i - 1].outcome # "ok"
    /\ rr_result = "returned" =>
          (rr_pc = "done" /\ rr_log[Len(rr_log)] = GetEvent("ok"))
    /\ rr_result \notin {"none", "returned"} =>
          /\ rr_pc = "done" /\ Len(rr_log) = 5
          /\ rr_log[5] = GetEvent(rr_result)
    /\ rr_pc = "done" <=> rr_result # "none"

\* C3 witness: three failed GETs, sleeps of 2 then 4 seconds, error raised.
C3_Witness ==
    /\ rr_pc = "done" /\ rr_result = "timeout"
    /\ Len(rr_log) = 5
    /\ rr_log[2].secs = 2 /\ rr_log[4].secs = 4

\* C4 as stated: an HTTP 4xx response on the first attempt is raised at once,
\* with no sleep and no second attempt.
C4_Original ==
    (Len(rr_log) >= 1 /\ rr_log[1].outcome = "http_4xx") =>
        (Len(rr_log) = 1 /\ rr_pc = "done" /\ rr_result = "http_4xx")

\* C4 amended: an HTTP 4xx response is retried like any other request
\* failure: on attempt 1 or 2 it is followed by the backoff sleep and a
\* further attempt is due or made, and it reaches the caller only as the
\* error of the 3rd attempt.
C4_ClientErrorIsRetried ==
    /\ \A i \in 1..Len(rr_log) :
          (rr_log[i].outcome = "http_4xx" /\ i < 5) =>
              /\ Len(rr_log) > i
              /\ rr_log[i + 1] = SleepEvent(i + 1)
              /\ (Len(rr_log) = i + 1) => (rr_pc = "loop" /\ rr_result = "none")
    /\ rr_result = "http_4xx" => NumGets = 3

\* C4 witness: 4xx on the first attempt, a 2 s sleep, then a second attempt.
C4_Witness ==
    /\ Len(rr_log) >= 3
    /\ rr_log[1] = GetEvent("http_4xx")
    /\ rr_log[2] = SleepEvent(2)
    /\ rr_log[3].op = "get"


(***************************************************************************)
(* Properties of the identifier resolvers                                  *)
(***************************************************************************)

\* The part of s before its first c (all of s when it holds no c), stated by
\* what it is rather than by how split computes it.
Before(s, c) ==
    LET n == CHOOSE n \in 0..Len(s) :
                 /\ \A i \in 1..n : s[i] # c
                 /\ n = Len(s) \/ s[n + 1] = c
    IN  [i \in 1..n |-> s[i]]

Has(s, c) == \E i \in 1..Len(s) : s[i] = c

id_11A_VS == <<"1", "1", "A", "_", "V", "S">>
id_MTM_SM == <<"M", "T", "M", "_", "S", "M">>
id_4231_SM == <<"4", "2", "3", "1", "_", "S", "M">>
id_ABCD_SM == <<"A", "B", "C", "D", "_", "S", "M">>
id_2211T_QREV == <<"2", "2", "1", "1", "T", "_", "Q", "R", "E", "V">>
id_000000T_QREV == <<"0", "0", "0", "0", "0", "0", "T", "_", "Q", "R", "E", "V">>

\* C7: for an M3 id whose part before the first "_" is in the map, the
\* result is (None, name) when the mapped value is "composite" or "-" or
\* holds "(" or "-", and (first comma-separated code, name) otherwise; with
\* the table of build_m3_map.py, "11A_VS" gives ("3112", "Grain and Oilseed
\* Milling") and "MTM_SM" gives (None, "Total Manufacturing").
C7_ResolveM3 ==
    rs_call.family = "M3" =>
        LET m    == M3MapOf(rs_call.map)
            left == Before(rs_call.sid, "_")
        IN  /\ left \in DOMAIN m =>
                LET v == m[left].naics
                IN  IF v = composite \/ v = dash \/ Has(v, "(") \/ Has(v, "-")
                    THEN rs_result = <<NoneVal, m[left].name>>
                    ELSE rs_result = <<Before(v, ","), m[left].name>>
            /\ (rs_call.map = "m3_naics" /\ rs_call.sid = id_11A_VS) =>
                   rs_result = << <<"3", "1", "1", "2">>, <<"Grain and Oilseed Milling">> >>
            /\ (rs_call.map = "m3_naics" /\ rs_call.sid = id_MTM_SM) =>
                   rs_result = << NoneVal, <<"Total Manufacturing">> >>

\* C7 witness: "MTM_SM" was resolved against the table of build_m3_map.py
\* and kept its name without a code.
C7_Witness ==
    /\ rs_call = [family |-> "M3", sid |-> id_MTM_SM, map |-> "m3_naics"]
    /\ rs_result[1] = NoneVal /\ rs_result[2] # NoneVal

\* C7 witness of the other case: a comma list resolved to its first code.
C7_WitnessFirstCode ==
    /\ rs_call.family = "M3" /\ rs_call.map = "m3_naics"
    /\ rs_call.sid = <<"1", "1", "C", "_", "V", "S">>
    /\ rs_result[1] = <<"3", "1", "1", "6">>

\* C8: a CES id gives (None, None) when it has fewer than 11 characters,
\* when its characters 4..11 (0-indexed 3..10) are no key of the map, or
\* when the entry's naics is "-"; otherwise exactly (entry naics, entry name).
C8_ResolveCes ==
    rs_call.family = "CES" =>
        LET m   == CesMapOf(rs_call.map)
            sid == rs_call.sid
            est == [i \in 1..8 |-> sid[i + 3]]
        IN  IF Len(sid) < 11 THEN rs_result = <<NoneVal, NoneVal>>
            ELSE IF est \notin DOMAIN m THEN rs_result = <<NoneVal, NoneVal>>
            ELSE IF m[est].naics = <<"-">> THEN rs_result = <<NoneVal, NoneVal>>
            ELSE rs_result = <<m[est].naics, m[est].name>>

\* C8 witness: a 13-character CES id resolved through the map.
C8_Witness ==
    /\ rs_call.family = "CES" /\ rs_call.map = "test" /\ Len(rs_call.sid) = 13
    /\ rs_result = << <<"5", "4", "1", "5">>, <<"Computer systems design">> >>

\* C8 witness of the sentinel case: the entry exists and its naics is "-".
C8_WitnessSentinel ==
    /\ rs_call.family = "CES" /\ rs_call.map = "test" /\ Len(rs_call.sid) >= 11
    /\ [i \in 1..8 |-> rs_call.sid[i + 3]] = <<"0", "0", "0", "0", "0", "0", "0", "0">>
    /\ rs_result = <<NoneVal, NoneVal>>

\* C9: a Wholesale id gives the part before its first "_" exactly when that
\* part is non-empty and all digits, and None otherwise; "4231_SM" gives
\* "4231" and "ABCD_SM" gives None.
C9_ResolveWholesale ==
    rs_call.family = "Wholesale" =>
        LET left == Before(rs_call.sid, "_")
            allDigits == Len(left) > 0 /\ \A i \in 1..Len(left) : left[i] \in Digits
        IN  /\ rs_result = <<IF allDigits THEN left ELSE NoneVal>>
            /\ rs_call.sid = id_4231_SM => rs_result = << <<"4", "2", "3", "1">> >>
            /\ rs_call.sid = id_ABCD_SM => rs_result = <<NoneVal>>

\* C9 witness: "4231_SM" was resolved to "4231".
C9_Witness ==
    /\ rs_call.family = "Wholesale" /\ rs_call.sid = id_4231_SM
    /\ rs_result = << <<"4", "2", "3", "1">> >>

\* C9 witness of the other case: an id starting with "_" has an empty left
\* part and resolves to None.
C9_WitnessEmptyLeft ==
    /\ rs_call.family = "Wholesale" /\ rs_call.sid = <<"_", "4">>
    /\ rs_result = <<NoneVal>>

\* The part of s that remains when all letters at its end are removed.
WithoutTrailingLetters(s) ==
    LET n == CHOOSE n \in 0..Len(s) :
                 /\ n = 0 \/ s[n] \notin Letters
                 /\ \A i \in (n + 1)..Len(s) : s[i] \in Letters
    IN  [i \in 1..n |-> s[i]]

\* C10: a QSS id gives the part before its first "_" with all trailing
\* letters removed, unless that remainder is empty or "000000", when it gives
\* None; "2211T_QREV" gives "2211" and "000000T_QREV" gives None.
C10_ResolveQss ==
    rs_call.family = "QSS" =>
        LET rest == WithoutTrailingLetters(Before(rs_call.sid, "_"))
        IN  /\ rs_result = <<IF rest = <<>> \/ rest = <<"0", "0", "0", "0", "0", "0">>
                             THEN NoneVal ELSE rest>>
            /\ rs_call.sid = id_2211T_QREV => rs_result = << <<"2", "2", "1", "1">> >>
            /\ rs_call.sid = id_000000T_QREV => rs_result = <<NoneVal>>

\* C10 witness: two trailing letters were stripped from "4849YT_QREV".
C10_Witness ==
    /\ rs_call.family = "QSS"
    /\ rs_call.sid = <<"4", "8", "4", "9", "Y", "T", "_", "Q", "R", "E", "V">>
    /\ rs_result = << <<"4", "8", "4", "9">> >>

\* C10 witness of the other case: "000000T_QREV" resolved to None.
C10_WitnessZeros ==
    /\ rs_call.family = "QSS" /\ rs_call.sid = id_000000T_QREV
    /\ rs_result = <<NoneVal>>


(***************************************************************************)
(* Properties of the index builder                                         *)
(***************************************************************************)

\* The data files the loop has been through and found a document for.
IndexedFiles == { k \in 1..Len(DATA_FILE_PAGES) : k < ix_file /\ disk[k].exists }

SectionOf(k) == DATA_FILE_PAGES[k].pages[1].section

\* The positions in the entries list of the entries of one series of a file.
EntriesFor(k, sid) ==
    { n \in 1..Len(entries) :
        entries[n].dataFile = DATA_FILE_PAGES[k].file /\ entries[n].id = sid }

\* sub occurs in s / s ends in sub
Contains(s, sub) ==
    \E i \in 0..(Len(s) - Len(sub)) : \A j \in 1..Len(sub) : s[i + j] = sub[j]

EndsIn(s, sub) ==
    Len(s) >= Len(sub) /\ \A j \in 1..Len(sub) : s[Len(s) - Len(sub) + j] = sub[j]

str_MPC == <<"_", "M", "P", "C">>
str_IS == <<"_", "I", "S">>
id_11A_MPCVS == <<"1", "1", "A", "_", "M", "P", "C", "V", "S">>
id_42_IS == <<"4", "2", "_", "I", "S">>

\* C11 as stated: a series of the M3 section yields no entry exactly when its
\* id ends in _MPC or _IS; series of the other sections always yield entries.
C11_Original ==
    \A k \in IndexedFiles : \A n \in 1..Len(disk[k].series) :
        LET sid == disk[k].series[n].id
        IN  (EntriesFor(k, sid) = {})
            <=> (SectionOf(k) = "M3" /\ (EndsIn(sid, str_MPC) \/ EndsIn(sid, str_IS)))

\* C11, amended: a series of the M3 section yields no entry exactly when
\* _MPC or _IS occurs anywhere in its id (11A_MPCVS is dropped although it
\* ends in VS); every other M3 series of a loaded document yields entries,
\* and series of the other sections are never dropped, whatever their id.
C11_DroppedWhenPatternOccurs ==
    \A k \in IndexedFiles : \A n \in 1..Len(disk[k].series) :
        LET sid == disk[k].series[n].id
        IN  (EntriesFor(k, sid) = {})
            <=> (SectionOf(k) = "M3" /\ (Contains(sid, str_MPC) \/ Contains(sid, str_IS)))

\* A finished run over M3DocA and WholesaleDocA: 11A_MPCVS was dropped,
\* 11A_VS was indexed, and so was the wholesale series 42_IS.
C11_Witness ==
    /\ ix_pc = "returned"
    /\ disk[FilePos("m3/m3.json")] = M3DocA
    /\ EntriesFor(FilePos("m3/m3.json"), id_11A_MPCVS) = {}
    /\ EntriesFor(FilePos("m3/m3.json"), id_11A_VS) # {}
    /\ EntriesFor(FilePos("wholesale/wholesale_sales.json"), id_42_IS) # {}


\* The series of a loaded document that the M3 pattern does not exclude.
IndexedSeries(k) ==
    { n \in 1..Len(disk[k].series) :
        ~(SectionOf(k) = "M3" /\ (Contains(disk[k].series[n].id, str_MPC)
                                   \/ Contains(disk[k].series[n].id, str_IS))) }

EntriesOfFile(k) ==
    { n \in 1..Len(entries) : entries[n].dataFile = DATA_FILE_PAGES[k].file }

id_CES6054150001 ==
    <<"C", "E", "S", "6", "0", "5", "4", "1", "5", "0", "0", "0", "1">>

\* C12: a loaded data file with p registered pages and s non-excluded series
\* has s*p entries, one per (series, page) pair; the entries of one series
\* share id, name, dataFile and the classification fields and differ in the
\* page fields.
C12_OneEntryPerSeriesAndPage ==
    \A k \in IndexedFiles :
        LET pages == DATA_FILE_PAGES[k].pages
        IN  /\ Cardinality(EntriesOfFile(k))
                 = Cardinality(IndexedSeries(k)) * Len(pages)
            /\ \A n \in IndexedSeries(k) : \A p \in 1..Len(pages) :
                 Cardinality({ e \in EntriesFor(k, disk[k].series[n].id) :
                                 /\ entries[e].page = pages[p].page
                                 /\ entries[e].pageLabel = pages[p].pageLabel
                                 /\ entries[e].section = pages[p].section
                                 /\ entries[e].sectionLabel = pages[p].sectionLabel }) = 1
            /\ \A n \in IndexedSeries(k) :
                 \A e1, e2 \in EntriesFor(k, disk[k].series[n].id) :
                    /\ entries[e1].name = entries[e2].name
                    /\ entries[e1].naics = entries[e2].naics
                    /\ entries[e1].naicsName = entries[e2].naicsName
                    /\ e1 # e2 => entries[e1].page # entries[e2].page

\* A finished run over CesDocA, a document of 3 series shown on two pages:
\* 6 entries, 2 of them for CES6054150001.
C12_Witness ==
    /\ ix_pc = "returned"
    /\ disk[FilePos("ces/employees.json")] = CesDocA
    /\ Len(DATA_FILE_PAGES[FilePos("ces/employees.json")].pages) = 2
    /\ Cardinality(EntriesOfFile(FilePos("ces/employees.json"))) = 6
    /\ Cardinality(EntriesFor(FilePos("ces/employees.json"), id_CES6054150001)) = 2

\* C13: every non-excluded series of a loaded document has entries, whether
\* or not a code was resolved; an entry has naics and naicsName both or
\* neither, and has both exactly when the resolver of its section returned a
\* non-empty code.
C13_UnresolvedSeriesStillIndexed ==
    \A k \in IndexedFiles : \A n \in IndexedSeries(k) :
        LET sid  == disk[k].series[n].id
            code == IF SectionOf(k) = "CES"
                        THEN resolve_naics_ces(sid, CesMapOf(ix_maps.ces_map))[1]
                    ELSE IF SectionOf(k) = "M3"
                        THEN resolve_naics_m3(sid, M3MapOf(ix_maps.m3_map))[1]
                    ELSE IF SectionOf(k) = "Wholesale" THEN resolve_naics_wholesale(sid)
                    ELSE IF SectionOf(k) = "QSS" THEN resolve_naics_qss(sid)
                    ELSE NoneVal
        IN  /\ EntriesFor(k, sid) # {}
            /\ \A e \in EntriesFor(k, sid) :
                 /\ (entries[e].naics = NoneVal) <=> (entries[e].naicsName = NoneVal)
                 /\ (entries[e].naics # NoneVal) <=> (code # NoneVal /\ code # <<>>)
                 /\ entries[e].naics # NoneVal => entries[e].naics = code

\* A finished run over WholesaleDocA: ABCD_SM has an entry without the two
\* fields, 4231_SM an entry with both.
C13_Witness ==
    /\ ix_pc = "returned"
    /\ \E e \in EntriesFor(FilePos("wholesale/wholesale_sales.json"), id_ABCD_SM) :
         entries[e].naics = NoneVal /\ entries[e].naicsName = NoneVal
    /\ \E e \in EntriesFor(FilePos("wholesale/wholesale_sales.json"), id_4231_SM) :
         entries[e].naics = <<"4", "2", "3", "1">> /\ entries[e].naicsName # NoneVal


\* The name of the sector of a code in the static table, NoneVal if none.
SectorName(code) ==
    LET hits == { j \in 1..Len(NAICS_SECTORS) :
                    /\ Len(code) >= 2
                    /\ NAICS_SECTORS[j][1] = <<code[1], code[2]>> }
    IN  IF hits = {} THEN NoneVal ELSE NAICS_SECTORS[CHOOSE j \in hits : TRUE][2]

\* C14 as stated: an entry with a code carries the resolved name when the
\* resolver returned one; only when no name was resolved does it carry the
\* sector name of the code's first two digits, or the series' own name when
\* the sector is not in the table.
C14_ResolvedNameWins ==
    \A k \in IndexedFiles : \A n \in IndexedSeries(k) :
        LET series   == disk[k].series[n]
            own      == IF series.name = NoneVal THEN series.id ELSE series.name
            resolved == Resolve(SectionOf(k), series.id,
                                CesMapOf(ix_maps.ces_map), M3MapOf(ix_maps.m3_map))[2]
        IN  \A e \in EntriesFor(k, series.id) :
              entries[e].naics # NoneVal =>
                entries[e].naicsName =
                    IF resolved # NoneVal /\ resolved # <<>> THEN resolved
                    ELSE IF SectorName(entries[e].naics) # NoneVal
                         THEN SectorName(entries[e].naics)
                         ELSE own


\* The entries that build_naics_names takes a name from: both fields set.
Named(n) ==
    /\ entries[n].naics # NoneVal /\ entries[n].naics # <<>>
    /\ entries[n].naicsName # NoneVal /\ entries[n].naicsName # <<>>

SectorCodes == { NAICS_SECTORS[j][1] : j \in 1..Len(NAICS_SECTORS) }

code_315 == <<"3", "1", "5">>
code_21 == <<"2", "1">>

\* C15: the written lookup holds every pair of the sector table unchanged,
\* whatever the entries say for those codes; any other code that an entry
\* carries with a name has the naicsName of the first such entry in list
\* order; no other code is in the lookup, and no code is in it twice.
C15_FirstWriteWins ==
    ix_pc = "returned" =>
        /\ \A j \in 1..Len(NAICS_SECTORS) :
             \E i \in 1..Len(out_names) : out_names[i] = NAICS_SECTORS[j]
        /\ \A i1, i2 \in 1..Len(out_names) :
             out_names[i1][1] = out_names[i2][1] => i1 = i2
        /\ \A n \in 1..Len(entries) :
             Named(n) => \E i \in 1..Len(out_names) : out_names[i][1] = entries[n].naics
        /\ \A i \in 1..Len(out_names) :
             out_names[i][1] \notin SectorCodes =>
                \E n \in 1..Len(entries) :
                    /\ Named(n) /\ entries[n].naics = out_names[i][1]
                    /\ \A n2 \in 1..(n - 1) :
                         ~(Named(n2) /\ entries[n2].naics = out_names[i][1])
                    /\ out_names[i][2] = entries[n].naicsName

\* A finished run where two entries carry code 315 under different names
\* and the lookup has the first one, and where an entry carries sector code
\* 21 under a name of its own and the lookup has the sector table's name.
C15_Witness ==
    /\ ix_pc = "returned"
    /\ \E n1, n2 \in 1..Len(entries) :
         /\ n1 < n2 /\ entries[n1].naics = code_315 /\ entries[n2].naics = code_315
         /\ entries[n1].naicsName = <<"Apparel Manufacturing">>
         /\ entries[n2].naicsName = <<"Apparel">>
    /\ \E i \in 1..Len(out_names) : out_names[i] = <<code_315, <<"Apparel Manufacturing">>>>
    /\ \E n \in 1..Len(entries) :
         entries[n].naics = code_21 /\ entries[n].naicsName = <<"Mining and logging">>
    /\ \E i \in 1..Len(out_names) :
         out_names[i] = <<code_21, <<"Mining, Quarrying, and Oil and Gas Extraction">>>>


\* The entries list run builds when DATA_FILE_PAGES lists its items in another
\* order: order[j] is the position, in the declared order, of the j-th item.
RECURSIVE EntriesInOrder(_, _, _)
EntriesInOrder(order, j, acc) ==
    IF j > Len(order) THEN acc
    ELSE LET k == order[j]
         IN  IF ~disk[k].exists THEN EntriesInOrder(order, j + 1, acc)
             ELSE EntriesInOrder(order, j + 1,
                    ScanSeries(DATA_FILE_PAGES[k].file, DATA_FILE_PAGES[k].pages,
                               disk[k].series, 1,
                               CesMapOf(ix_maps.ces_map), M3MapOf(ix_maps.m3_map),
                               [entries |-> acc, series |-> 0, naics_mapped |-> 0]).entries)

\* The orders in which the data files that carry codes exchange places.
VariedPos == { FilePos(VariedFiles[i]) : i \in 1..Len(VariedFiles) }

FileOrders ==
    { [k \in 1..Len(DATA_FILE_PAGES) |-> IF k \in VariedPos THEN f[k] ELSE k]
        : f \in { g \in [VariedPos -> VariedPos] :
                    \A a, b \in VariedPos : g[a] = g[b] => a = b } }

NamesInOrder(order) == build_naics_names(EntriesInOrder(order, 1, <<>>))

Codes(names) == { names[i][1] : i \in 1..Len(names) }

\* The name a lookup has for a code, NoneVal when it has none.
NameOf(names, code) ==
    IF code \in Codes(names)
    THEN names[CHOOSE i \in 1..Len(names) : names[i][1] = code][2]
    ELSE NoneVal

\* Every entry that carries the code with a name carries it with one name.
OneName(code) ==
    \A n1, n2 \in 1..Len(entries) :
        (Named(n1) /\ Named(n2) /\ entries[n1].naics = code /\ entries[n2].naics = code)
            => entries[n1].naicsName = entries[n2].naicsName

code_5415 == <<"5", "4", "1", "5">>
code_311 == <<"3", "1", "1">>

\* C16 as stated: the lookup built from any permutation of the data-file
\* order has the same name for every code.
C16_Original ==
    ix_pc = "returned" =>
        \A order \in FileOrders :
            LET permuted == NamesInOrder(order)
            IN  /\ Codes(permuted) = Codes(out_names)
                /\ \A code \in Codes(out_names) :
                     NameOf(permuted, code) = NameOf(out_names, code)

\* C16, amended: under any permutation of the data-file order the lookup has
\* the same codes; a code of the sector table keeps the table's name, and a
\* code that all its entries carry under one name keeps that name. (A code
\* carried under different names takes the name of the first entry in file
\* order, which a permutation changes.)
C16_SameNameUnlessEntriesDisagree ==
    ix_pc = "returned" =>
        \A order \in FileOrders :
            LET permuted == NamesInOrder(order)
            IN  /\ Codes(permuted) = Codes(out_names)
                /\ \A j \in 1..Len(NAICS_SECTORS) :
                     /\ NameOf(out_names, NAICS_SECTORS[j][1]) = NAICS_SECTORS[j][2]
                     /\ NameOf(permuted, NAICS_SECTORS[j][1]) = NAICS_SECTORS[j][2]
                /\ \A code \in Codes(out_names) \ SectorCodes :
                     OneName(code) =>
                        NameOf(permuted, code) = NameOf(out_names, code)

\* A finished run where entries of two files carry code 5415 under one name,
\* entries of two files carry code 311 under two names, and some permutation
\* of the files gives code 311 another name.
C16_Witness ==
    /\ ix_pc = "returned"
    /\ \E n1, n2 \in 1..Len(entries) :
         /\ entries[n1].naics = code_5415 /\ entries[n2].naics = code_5415
         /\ entries[n1].dataFile # entries[n2].dataFile
    /\ OneName(code_5415)
    /\ ~OneName(code_311)
    /\ \E order \in FileOrders :
         NameOf(NamesInOrder(order), code_311) # NameOf(out_names, code_311)


id_11B_VS == <<"1", "1", "B", "_", "V", "S">>

M3Pos == FilePos("m3/m3.json")

\* The M3 document holds two series, the first with 1 observation and the
\* second with 3.
TwoSeriesM3Doc ==
    /\ disk[M3Pos].exists /\ Len(disk[M3Pos].series) = 2
    /\ Len(disk[M3Pos].series[1].data) = 1
    /\ Len(disk[M3Pos].series[2].data) = 3

\* C17 as stated: of an M3 document with a 1-point and a 3-point series, run
\* indexes the 3-point series on each page of m3/m3.json and the 1-point
\* series not at all, and the document on disk still holds both.
C17_Original ==
    (ix_pc = "returned" /\ TwoSeriesM3Doc) =>
        /\ Cardinality(EntriesFor(M3Pos, disk[M3Pos].series[2].id))
             = Len(DATA_FILE_PAGES[M3Pos].pages)
        /\ EntriesFor(M3Pos, disk[M3Pos].series[1].id) = {}

\* C17, amended: run does not look at the observations. Of an M3 document
\* with a 1-point and a 3-point series it indexes both, each on every page
\* of m3/m3.json, and no step of run changes a document on disk.
C17_BothSeriesIndexed ==
    [][ /\ disk' = disk
        /\ \/ ix_pc' # "returned"
           \/ ~TwoSeriesM3Doc
           \/ \A n \in {1, 2} :
                 Cardinality({ e \in 1..Len(entries') :
                                 /\ entries'[e].dataFile = "m3/m3.json"
                                 /\ entries'[e].id = disk[M3Pos].series[n].id })
                   = Len(DATA_FILE_PAGES[M3Pos].pages) ]_vars

\* A finished run over M3DocB: the 1-point series 11B_VS has an entry, and
\* the document is still on disk.
C17_Witness ==
    /\ ix_pc = "returned" /\ TwoSeriesM3Doc
    /\ disk[M3Pos] = M3DocB
    /\ EntriesFor(M3Pos, id_11B_VS) # {}
    /\ EntriesFor(M3Pos, id_11A_VS) # {}


AbsentFiles == { k \in 1..Len(DATA_FILE_PAGES) : ~disk[k].exists }
LoadedFiles == { k \in 1..Len(DATA_FILE_PAGES) : disk[k].exists }

\* What C18 says of a finished run apart from the counting: no entry for an
\* absent file, a warning for it, every other file indexed, both outputs
\* written.
SkippedFilesAreHarmless ==
    /\ \A k \in AbsentFiles :
         /\ EntriesOfFile(k) = {}
         /\ Cardinality({ w \in 1..Len(ix_warnings) :
                            ix_warnings[w] = DATA_FILE_PAGES[k].file }) = 1
    /\ Len(ix_warnings) = Cardinality(AbsentFiles)
    /\ \A k \in LoadedFiles : \A n \in IndexedSeries(k) :
         EntriesFor(k, disk[k].series[n].id) # {}
    /\ ix_written = {"search/search_index.json", "search/naics_names.json"}
    /\ out_index = entries

\* C18 as stated: an absent data file gives no entry and no exception, the
\* other files are processed and both outputs written, and the skipped file
\* is counted and reported: some counter of stats holds the number of
\* skipped files.
C18_Original ==
    /\ ix_pc \in {"loop", "returned"}
    /\ ix_pc = "returned" =>
         /\ SkippedFilesAreHarmless
         /\ AbsentFiles # {} =>
              \E c \in DOMAIN stats : stats[c] = Cardinality(AbsentFiles)

\* C18, amended: an absent data file gives no entry and no exception, the
\* other files are processed and both outputs written; the skipped file is
\* reported by a warning line and is left out of the count of processed
\* files, which counts the loaded files only.
C18_SkippedFileWarnedNotCounted ==
    /\ ix_pc \in {"loop", "returned"}
    /\ ix_pc = "returned" =>
         /\ SkippedFilesAreHarmless
         /\ stats.files = Cardinality(LoadedFiles)
         /\ stats.files = Len(DATA_FILE_PAGES) - Len(ix_warnings)

\* A finished run where ces/employees.json and m3/m3.json were absent and a
\* data file that comes after them in the loop was indexed.
C18_Witness ==
    /\ ix_pc = "returned"
    /\ ~disk[M3Pos].exists
    /\ ~disk[1].exists
    /\ \E k \in LoadedFiles : k > M3Pos /\ EntriesOfFile(k) # {}
    /\ stats.files > 0 /\ stats.files < Len(DATA_FILE_PAGES)
    /\ ix_written = {"search/search_index.json", "search/naics_names.json"}


(***************************************************************************)
(* Properties of the documents the fetchers write                          *)
(***************************************************************************)

\* C19: every series of every document a fetcher writes has at least 2
\* points, and at least 12 in construction/construction.json: a series that
\* would have 0 or 1 points is not written.
C19_NoSeriesUnderTwoPoints ==
    \A d \in 1..Len(fb_docs) : \A n \in 1..Len(fb_docs[d].series) :
        /\ Len(fb_docs[d].series[n].data) >= 2
        /\ fb_docs[d].file = "construction/construction.json"
             => Len(fb_docs[d].series[n].data) >= 12

\* fetch_m3 got three rows, two months of 11B and one of 11A: m3/m3.json is
\* written with the series 11B_VS only.
C19_Witness ==
    /\ fb_fetcher = "m3" /\ Len(fb_input) = 3
    /\ \A k \in 1..3 : fb_input[k].sa = "yes" /\ fb_input[k].cell = "125.0"
                       /\ fb_input[k].dtype = <<"V", "S">>
    /\ fb_input[1].cat = <<"1", "1", "B">> /\ fb_input[1].time = 202401
    /\ fb_input[2].cat = <<"1", "1", "A">> /\ fb_input[2].time = 202401
    /\ fb_input[3].cat = <<"1", "1", "B">> /\ fb_input[3].time = 202402
    /\ Len(fb_docs) = 1 /\ Len(fb_docs[1].series) = 1
    /\ fb_docs[1].series[1].id = <<"1", "1", "B", "_", "V", "S">>

\* fetch_construction got a sheet of 12 months whose first category column
\* starts with a text: that column, with 11 points, is not written, and the
\* other four are.
C19_WitnessConstruction ==
    /\ fb_fetcher = "construction" /\ fb_input.categories = 5
    /\ Len(fb_input.rows) = 12
    /\ fb_input.rows[1].cells = <<"n/a", "850.0", "850.0", "850.0", "850.0">>
    /\ Len(fb_docs) = 1 /\ Len(fb_docs[1].series) = 4
    /\ \A n \in 1..4 : Len(fb_docs[1].series[n].data) = 12

\* C20 as stated: in every document a fetcher writes, the data of each
\* series is in ascending order of date, whatever the order of the rows or
\* observations received.
C20_DataSortedByDate ==
    \A d \in 1..Len(fb_docs) : \A n \in 1..Len(fb_docs[d].series) :
        LET data == fb_docs[d].series[n].data
        IN  \A i, j \in 1..Len(data) : i < j => data[i].date <= data[j].date

\* The documents the run wrote, by position in fb_docs
WrittenDocs == 1..Len(fb_docs)

\* C21: no two series of a written document share an id.
C21_IdsUniqueInDocument ==
    \A d \in WrittenDocs :
        \A i, j \in 1..Len(fb_docs[d].series) :
            i # j => fb_docs[d].series[i].id # fb_docs[d].series[j].id

\* The cells of the modelled responses that float() accepts
NumberCells == {"125.0", "1,250.0", "101.5", "4.2", "850.0"}

InputRows == { fb_input[k] : k \in 1..Len(fb_input) }

\* The observations with a valid date that the run received and did not
\* filter out by row (adjustment, data type, series), as the id of the
\* series they belong to, their date and whether their value is missing.
\* A BEA row counts when its line number has one description in the
\* response, so that the id names one series.
SourceObs ==
    IF fb_fetcher = "m3" THEN
        { [id |-> r.cat \o <<"_">> \o r.dtype, date |-> r.time,
           missing |-> r.cell \notin NumberCells] : r \in { r \in InputRows : M3RowUsed(r) } }
    ELSE IF fb_fetcher = "qss" THEN
        { [id |-> r.cat \o <<"_">> \o r.dtype, date |-> QssDate(r.time),
           missing |-> r.cell \notin NumberCells] : r \in { r \in InputRows : QssRowUsed(r) } }
    ELSE IF fb_fetcher = "ces" THEN
        { [id |-> r.series_id, date |-> r.date, missing |-> r.cell \notin NumberCells]
            : r \in { r \in InputRows : r.date # 0 } }
    ELSE IF fb_fetcher = "nipa" THEN
        { [id |-> nipa_table \o <<"_">> \o r.line_num, date |-> r.time,
           missing |-> r.cell \notin NumberCells]
            : r \in { r \in InputRows :
                       /\ r.time # 0
                       /\ \A q \in InputRows :
                             q.line_num = r.line_num => q.line_desc = r.line_desc } }
    ELSE IF fb_fetcher = "fred" THEN
        UNION { { [id |-> IP_SERIES[k], date |-> o.date, missing |-> o.value \notin NumberCells]
                    : o \in { fb_input[k].observations[n] :
                                n \in { n \in 1..Len(fb_input[k].observations) :
                                          fb_input[k].observations[n].date # 0 } } }
                : k \in { k \in 1..Len(fb_input) : ~fb_input[k].raised } }
    ELSE IF fb_fetcher = "unemployment" THEN
        UNION { { [id |-> dp.series_id, date |-> dp.date, missing |-> dp.cell \notin NumberCells]
                    : dp \in { fb_input[k].data[n] :
                                 n \in { n \in 1..Len(fb_input[k].data) :
                                           fb_input[k].data[n].date # 0 } } }
                : k \in { k \in 1..Len(fb_input) : fb_input[k].status = "REQUEST_SUCCEEDED" } }
    ELSE {}

\* C22: an observation with a valid date and a missing or unparseable value
\* is a point with value null at that date in the written series it belongs
\* to; in the construction document, whose series share the sheet's dates,
\* every written series has a point for every dated row.
C22_MissingValueKeptAsNull ==
    /\ \A o \in SourceObs :
          o.missing =>
            \A d \in WrittenDocs :
              (\E i \in 1..Len(fb_docs[d].series) : fb_docs[d].series[i].id = o.id)
              => \E i \in 1..Len(fb_docs[d].series) :
                    /\ fb_docs[d].series[i].id = o.id
                    /\ \E n \in 1..Len(fb_docs[d].series[i].data) :
                          /\ fb_docs[d].series[i].data[n].date = o.date
                          /\ fb_docs[d].series[i].data[n].value = Null
    /\ fb_fetcher = "construction" =>
          \A d \in WrittenDocs :
            \A i \in 1..Len(fb_docs[d].series) :
              \A k \in 1..Len(fb_input.rows) :
                fb_input.rows[k].date # 0
                => \E n \in 1..Len(fb_docs[d].series[i].data) :
                      fb_docs[d].series[i].data[n].date = fb_input.rows[k].date

\* C23: along the series list of every written document, display_order is
\* strictly increasing.
C23_DisplayOrderIncreasing ==
    \A d \in WrittenDocs :
        \A i, j \in 1..Len(fb_docs[d].series) :
            i < j => fb_docs[d].series[i].display_order < fb_docs[d].series[j].display_order

\* The post-processor wrote the sales document with its two series, taken
\* from positions 2 and 5 of wholesale/wholesale.json and numbered 0 and 1.
C23_Witness ==
    /\ fb_fetcher = "post_process"
    /\ \E d \in WrittenDocs :
         /\ fb_docs[d].file = "wholesale/wholesale_sales.json"
         /\ Len(fb_docs[d].series) = 2
         /\ fb_docs[d].series[1].display_order = 0
         /\ fb_docs[d].series[2].display_order = 1

\* fetch_m3 wrote two series around one it left out: display_order 0 and 2.
C23_WitnessGap ==
    /\ fb_fetcher = "m3"
    /\ \E d \in WrittenDocs :
         /\ Len(fb_docs[d].series) = 2
         /\ fb_docs[d].series[1].display_order = 0
         /\ fb_docs[d].series[2].display_order = 2


(***************************************************************************)
(* Properties of post_process.run                                          *)
(***************************************************************************)

\* The log entries of one run
LogOfRun(n) == SelectSeq(pp_log, LAMBDA e : e.run = n)

\* C27: a sub-step whose input file is absent saves no file, changes no
\* file and raises nothing, and run goes on: when it returns, every sub-step
\* has been called, in the order of PostSteps.
C27_AbsentInputSkipsStep ==
    /\ pp_pc # "raised"
    /\ \A n \in 1..Len(pp_log) :
          pp_log[n].absent =>
             /\ pp_log[n].saved = {}
             /\ pp_log[n].changed = {}
             /\ ~pp_log[n].raised
    /\ pp_pc = "returned" =>
          /\ Len(LogOfRun(pp_run)) = Len(PostSteps)
          /\ \A k \in 1..Len(PostSteps) : LogOfRun(pp_run)[k].step = PostSteps[k]

\* A returned first run that found wholesale/wholesale.json and
\* ces/employees.json absent, skipped three sub-steps and then copied the
\* calendar.
C27_Witness ==
    /\ pp_pc = "returned" /\ pp_run = 1
    /\ ~pp_tree["wholesale/wholesale.json"].exists
    /\ ~pp_tree["ces/employees.json"].exists
    /\ pp_log[2].absent /\ pp_log[3].absent /\ pp_log[4].absent
    /\ pp_log[5].saved = {"calendar/release_calendar.json"}

\* C28: after the run that follows the first one, every derived document
\* is what the first run left (series, ids, names, display_order, data).
C28_SecondRunChangesNothing ==
    (pp_run = 2 /\ pp_pc = "returned") =>
        \A f \in DerivedFiles : pp_tree[f] = pp_first[f]

\* Both runs rewrote qss/qss.json, which holds the two revenue series
\* under their labels, and the second run saved the other derived documents
\* again.
C28_Witness ==
    /\ pp_run = 2 /\ pp_pc = "returned"
    /\ Len(pp_tree["qss/qss.json"].series) = 2
    /\ pp_tree["qss/qss.json"].series[1].name = <<"Electric Power Generation">>
    /\ pp_tree["qss/qss.json"].series[2].name = <<"8", "1", "_", "2", "T">>
    /\ LogOfRun(1)[1].saved = {"qss/qss.json"}
    /\ LogOfRun(2)[1].saved = {"qss/qss.json"}
    /\ LogOfRun(2)[2].saved # {} /\ LogOfRun(2)[3].saved # {} /\ LogOfRun(2)[4].saved # {}

(***************************************************************************)
(* Properties of the request loops                                         *)
(***************************************************************************)

\* Some call of retry_request in this run raised: every attempt failed.
PersistentFailure == \E k \in 1..Len(fl_got) : fl_got[k] = "error"

\* Some request of this run returned rows.
RowsReceived == \E k \in 1..Len(fl_got) : fl_got[k] = "rows"

\* C24, as stated: a request failure that persists through all retries is
\* re-raised out of the fetcher's run(); the orchestrator records the step as an
\* error and returns False.
C24_PersistentFailureLeavesRun ==
    (fl_pc = "recorded" /\ PersistentFailure)
        => /\ fl_result = "raised"
           /\ fl_errors = <<StepName(fl_fetcher)>>
           /\ fl_success = "False"

\* C24, amended: retry_request re-raises the failure, and what happens next
\* depends on the fetcher.  fetch_nipa.run lets it leave run(): the step is
\* recorded as an error and the orchestrator returns False.  fetch_m3.run,
\* fetch_qss.run and fetch_fred.run catch it, go on with the next request and
\* return normally: no error is recorded and the orchestrator returns True.
C24_FailureLeavesRunOnlyWhereNotCaught ==
    fl_pc = "recorded"
        => IF fl_fetcher = "nipa" /\ PersistentFailure
           THEN /\ fl_result = "raised"
                /\ fl_errors = <<StepName(fl_fetcher)>>
                /\ fl_success = "False"
           ELSE /\ fl_result = "returned"
                /\ fl_i = MaxRequests
                /\ fl_errors = <<>>
                /\ fl_success = "True"

C24_Witness ==
    /\ fl_pc = "recorded" /\ fl_fetcher = "m3" /\ PersistentFailure
    /\ fl_result = "returned" /\ fl_success = "True"

\* C26: in the four request loops a sleep occurs between any two successive
\* HTTP requests, on every path, the path where the earlier request failed
\* after exhausting its retries included.
C26_SleepBetweenRequests ==
    \A n \in 1..(Len(fl_log) - 1) :
        fl_log[n].op = "get" => fl_log[n + 1].op = "sleep"

\* C30: when no yearly request of fetch_m3.run or fetch_qss.run returned rows
\* (each failed or came back empty), run returns without writing and the
\* output file is as it was; the file is written only when rows were received.
C30_NoRowsNoWrite ==
    fl_fetcher \in {"m3", "qss"}
        => /\ fl_file # fl_before => RowsReceived
           /\ (fl_pc # "loop" /\ ~RowsReceived)
                  => fl_result = "returned" /\ fl_file = fl_before

C30_Witness ==
    /\ fl_fetcher = "qss" /\ fl_pc = "done" /\ fl_result = "returned"
    /\ ~RowsReceived /\ PersistentFailure
    /\ \E k \in 1..Len(fl_got) : fl_got[k] = "empty"
    /\ fl_before = "previous" /\ fl_file = "previous"

(***************************************************************************)
(* Properties of get_ready_fetchers                                        *)
(***************************************************************************)

\* get_ready_fetchers has been called and its two lists are in place.
ListsBuilt ==
    /\ entry = "run_scheduled" /\ calendar.exists
    /\ pc \in {"rs_loop", "rs_return", "main_exit", "exited"}

\* The calendar key lists today's Eastern date and is a key of FETCHER_MAP.
Due(cal_key) ==
    /\ cal_key \in DOMAIN FETCHER_MAP
    /\ \E k \in 1..Len(calendar.schedules) :
         /\ calendar.schedules[k].key = cal_key
         /\ InList(now_et.date, calendar.schedules[k].dates)

\* The clock is at or after the key's release time plus five minutes.
Released(cal_key) ==
    now_et.hour * 60 + now_et.minute
        >= FETCHER_MAP[cal_key].release_time[1] * 60
             + FETCHER_MAP[cal_key].release_time[2] + 5

TimesReady(name)   == Cardinality({ j \in 1..Len(fetchers) : fetchers[j].name = name })
TimesWaiting(name) == Cardinality({ j \in 1..Len(skipped)  : skipped[j].name = name })

\* C25: get_ready_fetchers partitions the due fetchers.  Each fetcher of a
\* FETCHER_MAP key that lists today is once in the ready list and not in the
\* waiting list when the clock is at or after release time plus 5 minutes,
\* once in the waiting list and not in the ready list otherwise; a key that
\* does not list today, or is not in FETCHER_MAP, puts nothing in either list;
\* every threshold is a valid clock time.
C25_ReadyWaitingPartition ==
    ListsBuilt =>
      /\ \A cal_key \in DOMAIN FETCHER_MAP :
           LET e  == FETCHER_MAP[cal_key]
               fa == FetchAfter(e.release_time)
           IN  /\ fa[1] \in 0..23 /\ fa[2] \in 0..59
               /\ \A j \in 1..Len(e.fetchers) :
                    LET name == e.fetchers[j].name
                    IN  /\ TimesReady(name)
                             = (IF Due(cal_key) /\ Released(cal_key) THEN 1 ELSE 0)
                        /\ TimesWaiting(name)
                             = (IF Due(cal_key) /\ ~Released(cal_key) THEN 1 ELSE 0)
      /\ \A j \in 1..Len(fetchers) :
           \E cal_key \in DOMAIN FETCHER_MAP :
             /\ Due(cal_key)
             /\ \E i \in 1..Len(FETCHER_MAP[cal_key].fetchers) :
                  FETCHER_MAP[cal_key].fetchers[i] = fetchers[j]
      /\ \A j \in 1..Len(skipped) :
           \E cal_key \in DOMAIN FETCHER_MAP :
             /\ Due(cal_key)
             /\ \E i \in 1..Len(FETCHER_MAP[cal_key].fetchers) :
                  FETCHER_MAP[cal_key].fetchers[i].name = skipped[j].name

\* Some fetchers are ready, some wait and a known key is not due.
C25_Witness ==
    /\ ListsBuilt /\ Len(fetchers) > 0 /\ Len(skipped) > 0
    /\ \E cal_key \in DOMAIN FETCHER_MAP : ~Due(cal_key)

\* Some fetcher is ready and a key unknown to FETCHER_MAP lists today.
C25_WitnessUnknownKey ==
    /\ ListsBuilt /\ Len(fetchers) > 0
    /\ \E k \in 1..Len(calendar.schedules) :
         /\ calendar.schedules[k].key \notin DOMAIN FETCHER_MAP
         /\ InList(now_et.date, calendar.schedules[k].dates)

(***************************************************************************)
(* Properties of fetch_calendar.run                                        *)
(***************************************************************************)

\* The scraper that fills each key of the calendar.
SourceOf(cal_key) ==
    IF cal_key \in {"bls", "bea", "fred_ip"} THEN cal_key ELSE "census"

\* What the request of that scraper came to in this run.
PageOf(cal_key) ==
    cal_pages[CHOOSE k \in 1..Len(cal_pages) : cal_pages[k].source = SourceOf(cal_key)].page

\* The ISO dates a date text stands for under the formats a scraper tries.
IsoOf(text, fmts) == { t.iso : t \in { u \in DateTexts : u.text = text /\ u.fmt \in fmts } }

\* The set of dates this run's page holds for a key: the dates of its rows
\* that the scraper of the key reads, none when the request failed.
ScrapedNow(cal_key) ==
    LET page == PageOf(cal_key)
        rows == page.rows
    IN  IF page.status # "ok" THEN {}
        ELSE IF cal_key = "bls"
        THEN UNION { IsoOf(rows[j], {"%b. %d, %Y", "%B %d, %Y"}) : j \in 1..Len(rows) }
        ELSE IF cal_key = "bea"
        THEN UNION { { rows[j].dates[i] : i \in 1..Len(rows[j].dates) }
                       : j \in { i \in 1..Len(rows) : rows[i].relevant } }
        ELSE IF cal_key = "fred_ip"
        THEN { rows[j] : j \in { i \in 1..Len(rows) :
                                   /\ rows[i] # ""
                                   /\ DatePos(rows[i]) >= DatePos(cutoff) } }
        ELSE UNION { IsoOf(rows[j].date, {"%B %d, %Y"})
                       : j \in { i \in 1..Len(rows) :
                                   matched_key[rows[i].indicator] = cal_key } }

WrittenDates(cal_key) ==
    LET dates == DatesUnder(cal_file.schedules, cal_key)
    IN  { dates[j] : j \in 1..Len(dates) }

\* C29: fetch_calendar.run rebuilds the calendar wholesale.  After a run the
\* file exists and its schedules hold the seven source keys and no other, each
\* with exactly the dates scraped in this run: a date of the calendar written
\* before survives only if this run scraped it again, and a source whose
\* scrape failed has an empty list.
C29_CalendarRebuiltWholesale ==
    cal_pc = "returned" =>
      /\ cal_file.exists
      /\ Len(cal_file.schedules) = Len(CalKeys)
      /\ \A k \in 1..Len(CalKeys) :
           /\ cal_file.schedules[k].key = CalKeys[k]
           /\ WrittenDates(CalKeys[k]) = ScrapedNow(CalKeys[k])
           /\ PageOf(CalKeys[k]).status # "ok" => cal_file.schedules[k].dates = <<>>

\* A run over an earlier calendar in which the BLS scrape failed and the
\* Census scrape brought dates: the file is written, the date the earlier
\* calendar held under census_m3 is gone, the bls list is empty.
C29_Witness ==
    /\ cal_pc = "returned" /\ cal_before.exists
    /\ PageOf("bls").status = "error"
    /\ DatesUnder(cal_before.schedules, "bls") # <<>>
    /\ DatesUnder(cal_file.schedules, "bls") = <<>>
    /\ DatesUnder(cal_file.schedules, "census_m3") = <<Tomorrow>>
    /\ LastMonth \in { DatesUnder(cal_before.schedules, "census_m3")[j]
                         : j \in 1..Len(DatesUnder(cal_before.schedules, "census_m3")) }

====
